---------------------------- MODULE Spec2Model ----------------------------
(***************************************************************************)
(* Model of the n-body simulation engine (class ThreeBodySystem of         *)
(* src/src/App.tsx) and of the live configuration writes that the canvas   *)
(* component performs on it (src/src/components/ThreeBodyCanvas.tsx).      *)
(*                                                                         *)
(* Numbers.  A JavaScript number is modelled as a fixed-point integer in   *)
(* units of 1/Scale, together with the three non-finite values PosInf,     *)
(* NegInf and NaN.  A finite result whose magnitude exceeds MaxFinite      *)
(* becomes an infinity, as an overflowing double does.  Quotients are      *)
(* truncated towards zero.  Angles are whole degrees.                      *)
(***************************************************************************)
EXTENDS Integers, Sequences, FiniteSets, TLC

(***************************************************************************)
(* Bounds of the model                                                     *)
(***************************************************************************)
Scale == 100
MaxFinite == 1000000000
MaxSteps == 2
MaxMutations == 1
MaxTrail == 1

(***************************************************************************)
(* Number model                                                            *)
(***************************************************************************)
PosInf == MaxFinite + 1
NegInf == 0 - (MaxFinite + 1)
NaN == MaxFinite + 2

IsNaN(a) == a = NaN
IsFinite(a) == a >= 0 - MaxFinite /\ a <= MaxFinite

Abs(a) == IF a < 0 THEN 0 - a ELSE a
Sign(a) == IF a < 0 THEN 0 - 1 ELSE IF a > 0 THEN 1 ELSE 0
Signed(s, m) == IF s < 0 THEN 0 - m ELSE m
InfOf(s) == IF s < 0 THEN NegInf ELSE PosInf

\* sum of two non-negative finite magnitudes, PosInf on overflow
SatAdd(x, y) == IF x > MaxFinite - y THEN PosInf ELSE x + y

\* a + b
FAdd(a, b) ==
  IF IsNaN(a) \/ IsNaN(b) THEN NaN
  ELSE IF ~IsFinite(a) /\ ~IsFinite(b) THEN (IF a = b THEN a ELSE NaN)
  ELSE IF ~IsFinite(a) THEN a
  ELSE IF ~IsFinite(b) THEN b
  ELSE IF a + b > MaxFinite THEN PosInf
  ELSE IF a + b < 0 - MaxFinite THEN NegInf
  ELSE a + b

FNeg(a) == IF IsNaN(a) THEN NaN ELSE 0 - a

\* a - b
FSub(a, b) == FAdd(a, FNeg(b))

\* product of two non-negative finite magnitudes, in units of 1/Scale
MulMag(x, y) ==
  LET qx == x \div Scale
      rx == x % Scale
      qy == y \div Scale
      ry == y % Scale
  IN  IF qx > 0 /\ qy > (MaxFinite \div Scale) \div qx THEN PosInf
      ELSE LET t1 == SatAdd(qx * qy * Scale, qx * ry)
               t2 == IF t1 = PosInf THEN PosInf ELSE SatAdd(t1, rx * qy)
           IN  IF t2 = PosInf THEN PosInf ELSE SatAdd(t2, (rx * ry) \div Scale)

\* a * b
FMul(a, b) ==
  IF IsNaN(a) \/ IsNaN(b) THEN NaN
  ELSE IF ~IsFinite(a) \/ ~IsFinite(b)
       THEN (IF a = 0 \/ b = 0 THEN NaN ELSE InfOf(Sign(a) * Sign(b)))
  ELSE LET m == MulMag(Abs(a), Abs(b))
       IN  IF m = PosInf THEN InfOf(Sign(a) * Sign(b))
           ELSE Signed(Sign(a) * Sign(b), m)

\* quotient of two finite magnitudes, y > 0, in units of 1/Scale
DivMag(x, y) ==
  LET q == x \div y
      r == x % y
  IN  IF q > MaxFinite \div Scale THEN PosInf
      ELSE IF r <= MaxFinite \div Scale
           THEN SatAdd(q * Scale, (r * Scale) \div y)
           ELSE SatAdd(q * Scale, r \div (y \div Scale))

\* a / b
FDiv(a, b) ==
  IF IsNaN(a) \/ IsNaN(b) THEN NaN
  ELSE IF ~IsFinite(a) /\ ~IsFinite(b) THEN NaN
  ELSE IF ~IsFinite(a) THEN (IF b < 0 THEN FNeg(a) ELSE a)
  ELSE IF ~IsFinite(b) THEN 0
  ELSE IF b = 0 THEN (IF a = 0 THEN NaN ELSE InfOf(Sign(a)))
  ELSE LET m == DivMag(Abs(a), Abs(b))
       IN  IF m = PosInf THEN InfOf(Sign(a) * Sign(b))
           ELSE Signed(Sign(a) * Sign(b), m)

\* a < b and a > b; every comparison with NaN is false
FLt(a, b) == ~IsNaN(a) /\ ~IsNaN(b) /\ a < b
FGt(a, b) == FLt(b, a)

\* Math.min and Math.max
FMin(a, b) == IF IsNaN(a) \/ IsNaN(b) THEN NaN ELSE IF a < b THEN a ELSE b
FMax(a, b) == IF IsNaN(a) \/ IsNaN(b) THEN NaN ELSE IF a > b THEN a ELSE b

\* largest r in lo..hi with r * r <= n, given lo * lo <= n
RECURSIVE ISqrtIn(_, _, _)
ISqrtIn(n, lo, hi) ==
  IF lo >= hi THEN lo
  ELSE LET mid == (lo + hi + 1) \div 2
       IN  IF mid <= n \div mid THEN ISqrtIn(n, mid, hi)
           ELSE ISqrtIn(n, lo, mid - 1)

ISqrt(n) == IF n <= 0 THEN 0 ELSE ISqrtIn(n, 1, 46340)

\* Math.sqrt
FSqrt(a) ==
  IF IsNaN(a) \/ a < 0 THEN NaN
  ELSE IF a = PosInf THEN PosInf
  ELSE IF a <= MaxFinite \div Scale THEN ISqrt(a * Scale)
  ELSE ISqrt(a) * ISqrt(Scale)


(***************************************************************************)
(* Math.cos, Math.sin and Math.pow(10, x)                                  *)
(***************************************************************************)
\* 1000 * cos(d degrees) for d = 0..90, at index d + 1
CosTable ==
  <<1000, 1000, 999, 999, 998, 996, 995, 993, 990, 988, 985, 982, 978, 974,
    970, 966, 961, 956, 951, 946, 940, 934, 927, 921, 914, 906, 899, 891,
    883, 875, 866, 857, 848, 839, 829, 819, 809, 799, 788, 777, 766, 755,
    743, 731, 719, 707, 695, 682, 669, 656, 643, 629, 616, 602, 588, 574,
    559, 545, 530, 515, 500, 485, 469, 454, 438, 423, 407, 391, 375, 358,
    342, 326, 309, 292, 276, 259, 242, 225, 208, 191, 174, 156, 139, 122,
    105, 87, 70, 52, 35, 17, 0>>

\* Math.cos of an angle in whole degrees
Cos(deg) ==
  LET d == deg % 360
      c == IF d <= 90 THEN CosTable[d + 1]
           ELSE IF d <= 180 THEN 0 - CosTable[180 - d + 1]
           ELSE IF d <= 270 THEN 0 - CosTable[d - 180 + 1]
           ELSE CosTable[360 - d + 1]
  IN  Signed(c, (Abs(c) * Scale) \div 1000)

\* Math.sin of an angle in whole degrees
Sin(deg) == Cos(deg - 90)

\* 1000 * 10^(j/4) for j = 0..3, at index j + 1
Pow10Quarter == <<1000, 1778, 3162, 5623>>

RECURSIVE IntPow10(_)
IntPow10(q) == IF q <= 0 THEN 1 ELSE 10 * IntPow10(q - 1)

\* Math.pow(10, e); the exponent is taken at a resolution of 1/4
Pow10(e) ==
  IF IsNaN(e) THEN NaN
  ELSE IF e = PosInf THEN PosInf
  ELSE IF e = NegInf THEN 0
  ELSE LET q == e \div Scale
           j == ((e % Scale) * 4) \div Scale
           m == (Pow10Quarter[j + 1] * Scale) \div 1000
       IN  IF q >= 9 THEN PosInf
           ELSE IF q <= 0 - 9 THEN 0
           ELSE IF q >= 0
                THEN (IF IntPow10(q) > MaxFinite \div Scale THEN PosInf
                      ELSE FMul(IntPow10(q) * Scale, m))
           ELSE (IF IntPow10(0 - q) > MaxFinite \div Scale THEN 0
                 ELSE FDiv(m, IntPow10(0 - q) * Scale))

(***************************************************************************)
(* Math.random: a pseudo-random stream, started from an unknown seed.      *)
(* The k-th draw of a stream is MathRandom(seed, k) / RandDen, in [0, 1).  *)
(***************************************************************************)
RandDen == 8

\* the seeds that the model draws a stream from
Seeds == {0, 1}

RECURSIVE MathRandom(_, _)
MathRandom(seed, k) ==
  IF k = 0 THEN seed % RandDen
  ELSE (5 * MathRandom(seed, k - 1) + 3) % RandDen

\* random(min, max) of initializeRandomBodies, on the draw x / RandDen
random(x, min, max) ==
  FAdd(min, FMul((x * Scale) \div RandDen, FSub(max, min)))

\* random(-0.3, 0.3) radians, in whole degrees
JitterDeg == 17

randomJitter(x) == (0 - JitterDeg) + (x * 2 * JitterDeg) \div RandDen


(***************************************************************************)
(* The engine: class ThreeBodySystem.  An engine is a record of its four   *)
(* fields; every method is an operator from the engine before the call to  *)
(* the engine after it.                                                    *)
(***************************************************************************)
colors == <<"#FF5252", "#4CAF50", "#2196F3", "#9C27B0", "#FFC107">>

\* a / 100 as a number of the model
Percent(a) == (a * Scale) \div 100

\* the length of Array.from({ length: n })
ToLength(n) == IF n < 0 THEN 0 ELSE n

\* mutant of newBody: the distance from the center is drawn from
\* [0.1, 0.3] * canvasWidth
newBody_WideRing(cfg, seed, i) ==
  LET x0 == MathRandom(seed, 5 * i)
      x1 == MathRandom(seed, 5 * i + 1)
      x2 == MathRandom(seed, 5 * i + 2)
      x3 == MathRandom(seed, 5 * i + 3)
      x4 == MathRandom(seed, 5 * i + 4)
      angle == (i * 360) \div cfg.numBodies + randomJitter(x0)
      distance == random(x1, FMul(cfg.canvasWidth, Percent(10)),
                             FMul(cfg.canvasWidth, Percent(30)))
      x == FAdd(FDiv(cfg.canvasWidth, 2 * Scale), FMul(distance, Cos(angle)))
      y == FAdd(FDiv(cfg.canvasHeight, 2 * Scale), FMul(distance, Sin(angle)))
      mass == Pow10(random(x2, cfg.minMass, cfg.maxMass))
  IN  [mass |-> mass,
       position |-> <<x, y>>,
       velocity |-> <<random(x3, cfg.minVelocity, cfg.maxVelocity),
                      random(x4, cfg.minVelocity, cfg.maxVelocity)>>,
       color |-> colors[(i % Len(colors)) + 1],
       radius |-> FAdd(5 * Scale, FMul(FSqrt(mass), 2 * Scale)),
       trail |-> <<>>]

\* the body that initializeRandomBodies creates at index i (from 0), the
\* draws of the stream being taken in the order of the code
newBody(cfg, seed, i) ==
  LET x0 == MathRandom(seed, 5 * i)
      x1 == MathRandom(seed, 5 * i + 1)
      x2 == MathRandom(seed, 5 * i + 2)
      x3 == MathRandom(seed, 5 * i + 3)
      x4 == MathRandom(seed, 5 * i + 4)
      angle == (i * 360) \div cfg.numBodies + randomJitter(x0)
      distance == random(x1, FMul(cfg.canvasWidth, Percent(15)),
                             FMul(cfg.canvasWidth, Percent(30)))
      x == FAdd(FDiv(cfg.canvasWidth, 2 * Scale), FMul(distance, Cos(angle)))
      y == FAdd(FDiv(cfg.canvasHeight, 2 * Scale), FMul(distance, Sin(angle)))
      mass == Pow10(random(x2, cfg.minMass, cfg.maxMass))
  IN  [mass |-> mass,
       position |-> <<x, y>>,
       velocity |-> <<random(x3, cfg.minVelocity, cfg.maxVelocity),
                      random(x4, cfg.minVelocity, cfg.maxVelocity)>>,
       color |-> colors[(i % Len(colors)) + 1],
       radius |-> FAdd(5 * Scale, FMul(FSqrt(mass), 2 * Scale)),
       trail |-> <<>>]

initializeRandomBodies(cfg, seed) ==
  [k \in 1 .. ToLength(cfg.numBodies) |-> newBody(cfg, seed, k - 1)]

\* config.f ?? d
Nullish(cfg, f, d) == IF f \in DOMAIN cfg THEN cfg[f] ELSE d

\* new ThreeBodySystem(cfg)
constructor(cfg, seed) ==
  LET c == [G |-> cfg.G,
            dt |-> cfg.dt,
            speedMultiplier |-> Nullish(cfg, "speedMultiplier", Scale),
            useAdaptiveTimeStep |-> Nullish(cfg, "useAdaptiveTimeStep", TRUE),
            maxPositionChangeRatio |->
              Nullish(cfg, "maxPositionChangeRatio", Percent(1)),
            canvasWidth |-> cfg.canvasWidth,
            canvasHeight |-> cfg.canvasHeight,
            maxTrailLength |-> cfg.maxTrailLength,
            minMass |-> cfg.minMass,
            maxMass |-> cfg.maxMass,
            minVelocity |-> cfg.minVelocity,
            maxVelocity |-> cfg.maxVelocity,
            numBodies |-> cfg.numBodies]
  IN  [bodies |-> initializeRandomBodies(c, seed),
       bodiesId |-> 1,
       config |-> c,
       running |-> FALSE,
       effectiveTimeStep |-> c.dt]

\* mutant of reset: the new simulation starts paused
reset_Pauses(sys, seed) ==
  [sys EXCEPT !.bodies = initializeRandomBodies(sys.config, seed),
              !.bodiesId = sys.bodiesId + 1,
              !.running = FALSE]

\* bodiesId is the identity of the array object held by this.bodies: every
\* call of initializeRandomBodies allocates a new array
reset(sys, seed) ==
  [sys EXCEPT !.bodies = initializeRandomBodies(sys.config, seed),
              !.bodiesId = sys.bodiesId + 1]


\* the 1e-10 added to the distance: below the resolution of the number model
Epsilon == (Scale \div 100000) \div 100000

\* mutant of calculateForce: the mass of the first body in the place of the
\* mass of the second
calculateForce_OwnMass(cfg, body1, body2) ==
  LET dx == FSub(body2.position[1], body1.position[1])
      dy == FSub(body2.position[2], body1.position[2])
      distSquared == FAdd(FMul(dx, dx), FMul(dy, dy))
      dist == FAdd(FSqrt(distSquared), Epsilon)
      forceMagnitude ==
        FDiv(FMul(FMul(cfg.G, body1.mass), body1.mass), distSquared)
  IN  <<FDiv(FMul(forceMagnitude, dx), dist),
        FDiv(FMul(forceMagnitude, dy), dist)>>

calculateForce(cfg, body1, body2) ==
  LET dx == FSub(body2.position[1], body1.position[1])
      dy == FSub(body2.position[2], body1.position[2])
      distSquared == FAdd(FMul(dx, dx), FMul(dy, dy))
      dist == FAdd(FSqrt(distSquared), Epsilon)
      forceMagnitude ==
        FDiv(FMul(FMul(cfg.G, body1.mass), body2.mass), distSquared)
  IN  <<FDiv(FMul(forceMagnitude, dx), dist),
        FDiv(FMul(forceMagnitude, dy), dist)>>

\* Math.sqrt(vx * vx + vy * vy)
Magnitude(v) == FSqrt(FAdd(FMul(v[1], v[1]), FMul(v[2], v[2])))

\* maxVelocityMagnitude after the outer loop has visited bodies 1..i
RECURSIVE MaxVelocityUpTo(_, _)
MaxVelocityUpTo(bs, i) ==
  IF i = 0 THEN 0
  ELSE LET prev == MaxVelocityUpTo(bs, i - 1)
           velocityMagnitude == Magnitude(bs[i].velocity)
       IN  IF FGt(velocityMagnitude, prev) THEN velocityMagnitude ELSE prev

\* Math.sqrt(dx * dx + dy * dy) of two bodies
Distance(b1, b2) ==
  Magnitude(<<FSub(b2.position[1], b1.position[1]),
              FSub(b2.position[2], b1.position[2])>>)

\* minDistance after the inner loop of body i has visited bodies i+1..j,
\* entered with the value m
RECURSIVE MinDistanceInner(_, _, _, _)
MinDistanceInner(bs, i, j, m) ==
  IF j <= i THEN m
  ELSE LET prev == MinDistanceInner(bs, i, j - 1, m)
           distance == Distance(bs[i], bs[j])
       IN  IF FLt(distance, prev) THEN distance ELSE prev

\* minDistance after the outer loop has visited bodies 1..i
RECURSIVE MinDistanceUpTo(_, _)
MinDistanceUpTo(bs, i) ==
  IF i = 0 THEN PosInf
  ELSE MinDistanceInner(bs, i, Len(bs), MinDistanceUpTo(bs, i - 1))

\* mutant of adaptiveBranch: no fallback to the base time step
adaptiveBranch_NoFallback(sys) ==
    LET numBodies == Len(sys.bodies)
        maxVelocityMagnitude == MaxVelocityUpTo(sys.bodies, numBodies)
        minDistance == MinDistanceUpTo(sys.bodies, numBodies)
        maxAllowedChange == FMul(sys.config.maxPositionChangeRatio, minDistance)
        adaptiveTimeStep == FDiv(maxAllowedChange, maxVelocityMagnitude)
        baseTimeStep == sys.config.dt
        maxTimeStep == FMul(baseTimeStep, 10 * Scale)
        minTimeStep == FMul(baseTimeStep, Percent(10))
    IN  FMin(FMax(adaptiveTimeStep, minTimeStep), maxTimeStep)

\* mutant of adaptiveBranch: no lower end of the clamp
adaptiveBranch_NoLowerClamp(sys) ==
    LET numBodies == Len(sys.bodies)
        maxVelocityMagnitude == MaxVelocityUpTo(sys.bodies, numBodies)
        minDistance == MinDistanceUpTo(sys.bodies, numBodies)
        maxAllowedChange == FMul(sys.config.maxPositionChangeRatio, minDistance)
        adaptiveTimeStep == FDiv(maxAllowedChange, maxVelocityMagnitude)
        baseTimeStep == sys.config.dt
        maxTimeStep == FMul(baseTimeStep, 10 * Scale)
    IN  IF numBodies <= 1 \/ minDistance = PosInf \/ maxVelocityMagnitude = 0
        THEN sys.config.dt
        ELSE FMin(adaptiveTimeStep, maxTimeStep)

\* the adaptive branch of calculateAdaptiveTimeStep
adaptiveBranch(sys) ==
    LET numBodies == Len(sys.bodies)
        maxVelocityMagnitude == MaxVelocityUpTo(sys.bodies, numBodies)
        minDistance == MinDistanceUpTo(sys.bodies, numBodies)
        maxAllowedChange == FMul(sys.config.maxPositionChangeRatio, minDistance)
        adaptiveTimeStep == FDiv(maxAllowedChange, maxVelocityMagnitude)
        baseTimeStep == sys.config.dt
        maxTimeStep == FMul(baseTimeStep, 10 * Scale)
        minTimeStep == FMul(baseTimeStep, Percent(10))
    IN  IF numBodies <= 1 \/ minDistance = PosInf \/ maxVelocityMagnitude = 0
        THEN sys.config.dt
        ELSE FMin(FMax(adaptiveTimeStep, minTimeStep), maxTimeStep)

\* mutant of calculateAdaptiveTimeStep: no check of useAdaptiveTimeStep
calculateAdaptiveTimeStep_IgnoresFlag(sys) == adaptiveBranch(sys)

calculateAdaptiveTimeStep(sys) ==
  IF ~sys.config.useAdaptiveTimeStep THEN sys.config.dt
  ELSE adaptiveBranch(sys)

\* forces[i] after the inner loop has visited bodies 1..j
RECURSIVE ForceUpTo(_, _, _, _)
ForceUpTo(cfg, bs, i, j) ==
  IF j = 0 THEN <<0, 0>>
  ELSE LET prev == ForceUpTo(cfg, bs, i, j - 1)
           f == calculateForce(cfg, bs[i], bs[j])
       IN  IF i = j THEN prev
           ELSE <<FAdd(prev[1], f[1]), FAdd(prev[2], f[2])>>

\* mutant of pushTrail: the entry removed is the newest
pushTrail_DropsNewest(trail, position, maxTrailLength) ==
  LET pushed == Append(trail, position)
  IN  IF Len(pushed) > maxTrailLength
      THEN SubSeq(pushed, 1, Len(pushed) - 1)
      ELSE pushed

\* mutant of pushTrail: shifts as soon as the trail is full
pushTrail_ShiftsWhenFull(trail, position, maxTrailLength) ==
  LET pushed == Append(trail, position)
  IN  IF Len(pushed) >= maxTrailLength THEN Tail(pushed) ELSE pushed

\* body.trail.push([...body.position]); one shift() if the trail is too long
pushTrail(trail, position, maxTrailLength) ==
  LET pushed == Append(trail, position)
  IN  IF Len(pushed) > maxTrailLength THEN Tail(pushed) ELSE pushed

\* mutant of advanceBody: the position moves with the velocity before the
\* step
advanceBody_OldVelocity(body, force, timeStep, maxTrailLength) ==
  LET vx == FAdd(body.velocity[1], FMul(FDiv(force[1], body.mass), timeStep))
      vy == FAdd(body.velocity[2], FMul(FDiv(force[2], body.mass), timeStep))
      px == FAdd(body.position[1], FMul(body.velocity[1], timeStep))
      py == FAdd(body.position[2], FMul(body.velocity[2], timeStep))
  IN  [body EXCEPT !.velocity = <<vx, vy>>,
                   !.position = <<px, py>>,
                   !.trail = pushTrail(body.trail, <<px, py>>, maxTrailLength)]

\* one pass of the second loop of update(): the body, the force on it, the
\* time step of the velocity and position updates, the trail capacity
advanceBody(body, force, timeStep, maxTrailLength) ==
  LET vx == FAdd(body.velocity[1], FMul(FDiv(force[1], body.mass), timeStep))
      vy == FAdd(body.velocity[2], FMul(FDiv(force[2], body.mass), timeStep))
      px == FAdd(body.position[1], FMul(vx, timeStep))
      py == FAdd(body.position[2], FMul(vy, timeStep))
  IN  [body EXCEPT !.velocity = <<vx, vy>>,
                   !.position = <<px, py>>,
                   !.trail = pushTrail(body.trail, <<px, py>>, maxTrailLength)]

\* mutant of advance: the acceleration is stored over the mass
advance_WritesMass(body, force, timeStep, maxTrailLength) ==
  [advanceBody(body, force, timeStep, maxTrailLength)
     EXCEPT !.mass = FDiv(force[1], body.mass)]

\* mutant of advance: the radius grows with every step
advance_WritesRadius(body, force, timeStep, maxTrailLength) ==
  [advanceBody(body, force, timeStep, maxTrailLength)
     EXCEPT !.radius = FAdd(body.radius, Scale)]

advance(body, force, timeStep, maxTrailLength) ==
  advanceBody(body, force, timeStep, maxTrailLength)

\* mutant of integrationStep: the base time step, as in the engine without
\* adaptive stepping
integrationStep_BaseDt(sys, effectiveTimeStep) == sys.config.dt

\* mutant of integrationStep: the time step times the speed multiplier
integrationStep_TimesSpeed(sys, effectiveTimeStep) ==
  FMul(effectiveTimeStep, sys.config.speedMultiplier)

\* the time step that update() reads for the velocity and position updates:
\* this.effectiveTimeStep, just assigned
integrationStep(sys, effectiveTimeStep) == effectiveTimeStep

\* mutant of runUpdate: the first body is moved before the forces on the
\* other bodies are computed
runUpdate_GaussSeidel(sys) ==
  LET effectiveTimeStep == calculateAdaptiveTimeStep(sys)
      numBodies == Len(sys.bodies)
      first == advance(sys.bodies[1],
                       ForceUpTo(sys.config, sys.bodies, 1, numBodies),
                       integrationStep(sys, effectiveTimeStep),
                       sys.config.maxTrailLength)
      moved == [sys.bodies EXCEPT ![1] = first]
  IN  [sys EXCEPT
         !.effectiveTimeStep = effectiveTimeStep,
         !.bodies = [i \in 1 .. numBodies |->
                       IF i = 1 THEN first
                       ELSE advance(sys.bodies[i],
                                    ForceUpTo(sys.config, moved, i, numBodies),
                                    integrationStep(sys, effectiveTimeStep),
                                    sys.config.maxTrailLength)]]

\* update() past its first line
runUpdate(sys) ==
  LET effectiveTimeStep == calculateAdaptiveTimeStep(sys)
      numBodies == Len(sys.bodies)
      forces == [i \in 1 .. numBodies |->
                   ForceUpTo(sys.config, sys.bodies, i, numBodies)]
  IN  [sys EXCEPT
         !.effectiveTimeStep = effectiveTimeStep,
         !.bodies = [i \in 1 .. numBodies |->
                       advance(sys.bodies[i], forces[i],
                               integrationStep(sys, effectiveTimeStep),
                               sys.config.maxTrailLength)]]

\* mutant of update: no check of the running flag
update_IgnoresPause(sys) == runUpdate(sys)

update(sys) == IF ~sys.running THEN sys ELSE runUpdate(sys)

getEffectiveTimeStep(sys) == sys.effectiveTimeStep

\* mutant of setSpeedMultiplier: stores every argument
setSpeedMultiplier_NoCheck(sys, speedMultiplier) ==
  [sys EXCEPT !.config.speedMultiplier = speedMultiplier]

setSpeedMultiplier(sys, speedMultiplier) ==
  IF speedMultiplier > 0
  THEN [sys EXCEPT !.config.speedMultiplier = speedMultiplier]
  ELSE sys

\* mutant of setAdaptiveTimeStep: the effective time step is recomputed at
\* once
setAdaptiveTimeStep_Recomputes(sys, useAdaptive) ==
  LET next == [sys EXCEPT !.config.useAdaptiveTimeStep = useAdaptive]
  IN  [next EXCEPT !.effectiveTimeStep = calculateAdaptiveTimeStep(next)]

setAdaptiveTimeStep(sys, useAdaptive) ==
  [sys EXCEPT !.config.useAdaptiveTimeStep = useAdaptive]

\* mutant of setNumBodies: no comparison with the current number
setNumBodies_NoSameCheck(sys, numBodies, seed) ==
  IF numBodies >= 2 /\ numBodies <= 5
  THEN reset([sys EXCEPT !.config.numBodies = numBodies], seed)
  ELSE sys

\* mutant of setNumBodies: no reset
setNumBodies_NoReset(sys, numBodies, seed) ==
  IF numBodies >= 2 /\ numBodies <= 5 /\ numBodies # sys.config.numBodies
  THEN [sys EXCEPT !.config.numBodies = numBodies]
  ELSE sys

setNumBodies(sys, numBodies, seed) ==
  IF numBodies >= 2 /\ numBodies <= 5 /\ numBodies # sys.config.numBodies
  THEN reset([sys EXCEPT !.config.numBodies = numBodies], seed)
  ELSE sys

start(sys) == [sys EXCEPT !.running = TRUE]

pause(sys) == [sys EXCEPT !.running = FALSE]

isRunning(sys) == sys.running

\* mutant of toggleRunning: always leads to running
toggleRunning_Starts(sys) == [sys EXCEPT !.running = TRUE]

toggleRunning(sys) == [sys EXCEPT !.running = ~sys.running]


(***************************************************************************)
(* The engine in use.  Inputs of the calls.                                *)
(***************************************************************************)
\* the configuration objects that the engine is constructed with: without
\* and with the three optional fields
ConstructNumBodies == {1, 3}

BaseConfigs ==
  {[G |-> 1000 * Scale,
    dt |-> Percent(10),
    canvasWidth |-> 100 * Scale,
    canvasHeight |-> 80 * Scale,
    maxTrailLength |-> t,
    minMass |-> 0,
    maxMass |-> Scale,
    minVelocity |-> 0 - 2 * Scale,
    maxVelocity |-> 2 * Scale,
    numBodies |-> n] : n \in ConstructNumBodies, t \in 0 .. MaxTrail}

WithOptionalFields(c) ==
  [f \in DOMAIN c \cup {"speedMultiplier", "useAdaptiveTimeStep",
                        "maxPositionChangeRatio"} |->
     IF f = "speedMultiplier" THEN Scale
     ELSE IF f = "useAdaptiveTimeStep" THEN FALSE
     ELSE IF f = "maxPositionChangeRatio" THEN Percent(1)
     ELSE c[f]]

ConstructConfigs == BaseConfigs \cup {WithOptionalFields(c) : c \in BaseConfigs}

NumBodiesArgs == {1, 2, 3, 6}
SpeedArgs == {0 - Scale, 0, 2 * Scale}
GValues == {500 * Scale, 1000 * Scale}
DtValues == {Percent(10), Percent(20)}
TrailValues == 0 .. MaxTrail

VARIABLES
  system,          \* the engine
  lastOp,          \* the call made last
  lastArg,         \* its numeric argument, 0 if it has none
  mutCount,        \* number of resets and configuration writes so far
  stepsSinceInit,  \* running update() calls since this.bodies was last replaced
  trailCapFixed,   \* maxTrailLength has kept its value since then
  effFresh,        \* neither config.dt nor useAdaptiveTimeStep has changed
                   \* since effectiveTimeStep was last written
  twin,            \* a second engine, where two engines are compared;
                   \* <<>> where there is none
  ui               \* the canvas component and its container, where the
                   \* engine is the one the canvas owns; <<>> where the
                   \* engine is called directly

vars == <<system, lastOp, lastArg, mutCount, stepsSinceInit, trailCapFixed,
          effFresh, twin, ui>>

Init ==
  /\ \E cfg \in ConstructConfigs, seed \in Seeds :
       system = constructor(cfg, seed)
  /\ lastOp = "constructor"
  /\ lastArg = 0
  /\ mutCount = 0
  /\ stepsSinceInit = 0
  /\ trailCapFixed = TRUE
  /\ effFresh = TRUE
  /\ twin = <<>>
  /\ ui = <<>>

\* the bookkeeping of a call that takes the engine to next
Called(op, arg, next, isMutation) ==
  /\ system' = next
  /\ lastOp' = op
  /\ lastArg' = arg
  /\ mutCount' = IF isMutation THEN mutCount + 1 ELSE mutCount
  /\ stepsSinceInit' =
       IF next.bodiesId # system.bodiesId THEN 0
       ELSE IF op = "update" /\ system.running THEN stepsSinceInit + 1
       ELSE stepsSinceInit
  /\ trailCapFixed' =
       \/ next.bodiesId # system.bodiesId
       \/ trailCapFixed /\ next.config.maxTrailLength = system.config.maxTrailLength
  /\ effFresh' =
       \/ op = "update" /\ system.running
       \/ /\ effFresh
          /\ next.config.dt = system.config.dt
          /\ next.config.useAdaptiveTimeStep = system.config.useAdaptiveTimeStep
  /\ twin' = twin
  /\ ui' = ui

Update ==
  /\ system.running => stepsSinceInit < MaxSteps
  /\ Called("update", 0, update(system), FALSE)

Reset ==
  /\ mutCount < MaxMutations
  /\ \E seed \in Seeds : Called("reset", 0, reset(system, seed), TRUE)

SetNumBodies ==
  /\ mutCount < MaxMutations
  /\ \E n \in NumBodiesArgs, seed \in Seeds :
       Called("setNumBodies", n, setNumBodies(system, n, seed), TRUE)

SetSpeedMultiplier ==
  /\ mutCount < MaxMutations
  /\ \E s \in SpeedArgs :
       Called("setSpeedMultiplier", s, setSpeedMultiplier(system, s), TRUE)

SetAdaptiveTimeStep ==
  /\ mutCount < MaxMutations
  /\ \E b \in BOOLEAN :
       Called("setAdaptiveTimeStep", IF b THEN 1 ELSE 0,
              setAdaptiveTimeStep(system, b), TRUE)

Start ==
  /\ Called("start", 0, start(system), FALSE)

Pause ==
  /\ Called("pause", 0, pause(system), FALSE)

ToggleRunning ==
  /\ Called("toggleRunning", 0, toggleRunning(system), FALSE)

\* systemRef.current.config.G = config.G
SetConfigG ==
  /\ mutCount < MaxMutations
  /\ \E g \in GValues :
       Called("setG", g, [system EXCEPT !.config.G = g], TRUE)

\* systemRef.current.config.dt = config.dt
SetConfigDt ==
  /\ mutCount < MaxMutations
  /\ \E d \in DtValues :
       Called("setDt", d, [system EXCEPT !.config.dt = d], TRUE)

\* systemRef.current.config.maxTrailLength = config.maxTrailLength
SetConfigMaxTrailLength ==
  /\ mutCount < MaxMutations
  /\ \E t \in TrailValues :
       Called("setMaxTrailLength", t,
              [system EXCEPT !.config.maxTrailLength = t], TRUE)

Next ==
  \/ Update
  \/ Reset
  \/ SetNumBodies
  \/ SetSpeedMultiplier
  \/ SetAdaptiveTimeStep
  \/ Start
  \/ Pause
  \/ ToggleRunning
  \/ SetConfigG
  \/ SetConfigDt
  \/ SetConfigMaxTrailLength

Spec == Init /\ [][Next]_vars


(***************************************************************************)
(* The engine with bodies given by its caller.  bodies and config are      *)
(* public fields: a caller can edit the bodies of a constructed engine or  *)
(* replace them by bodies of its own.                                      *)
(***************************************************************************)
\* system.bodies[j].position = [...system.bodies[i].position] for the first
\* two bodies, if there are two
placeCoincident(sys) ==
  IF Len(sys.bodies) < 2 THEN sys
  ELSE [sys EXCEPT !.bodies[2].position = sys.bodies[1].position]

\* system.bodies.forEach(body => body.velocity = [0, 0])
placeAtRest(sys) ==
  [sys EXCEPT !.bodies = [i \in 1 .. Len(sys.bodies) |->
                            [sys.bodies[i] EXCEPT !.velocity = <<0, 0>>]]]

\* Two equal bodies at rest, 100 apart, without adaptive stepping.  Masses
\* are written in units of 100 and G per such unit, which leaves every
\* acceleration as it is and keeps G * m1 * m2 within MaxFinite.
MassUnit == 100

TwoBodyConfig ==
  [G |-> 1000 * MassUnit * Scale,
   dt |-> Percent(2),
   speedMultiplier |-> Scale,
   useAdaptiveTimeStep |-> FALSE,
   maxPositionChangeRatio |-> Percent(1),
   canvasWidth |-> 100 * Scale,
   canvasHeight |-> 80 * Scale,
   maxTrailLength |-> MaxTrail,
   minMass |-> 0,
   maxMass |-> Scale,
   minVelocity |-> 0 - 2 * Scale,
   maxVelocity |-> 2 * Scale,
   numBodies |-> 2]

TwoBodies ==
  LET m == (500 \div MassUnit) * Scale
      r == FAdd(5 * Scale, FMul(FSqrt(m), 2 * Scale))
  IN  <<[mass |-> m, position |-> <<0, 0>>, velocity |-> <<0, 0>>,
         color |-> colors[1], radius |-> r, trail |-> <<>>],
        [mass |-> m, position |-> <<100 * Scale, 0>>, velocity |-> <<0, 0>>,
         color |-> colors[2], radius |-> r, trail |-> <<>>]>>

\* system.bodies = TwoBodies on an engine constructed with TwoBodyConfig
placeTwoBodies(seed) ==
  [constructor(TwoBodyConfig, seed) EXCEPT !.bodies = TwoBodies]

\* the configurations of the engines whose bodies are edited
PlacedConfigs == {c \in ConstructConfigs : c.maxTrailLength = MaxTrail}

PlacedEngines ==
  {placeAtRest(constructor(c, seed)) : c \in PlacedConfigs, seed \in Seeds}
    \cup {placeCoincident(constructor(c, seed)) :
             c \in PlacedConfigs, seed \in Seeds}
    \cup {placeTwoBodies(seed) : seed \in Seeds}

PlacedInit ==
  /\ system \in PlacedEngines
  /\ lastOp = "place"
  /\ lastArg = 0
  /\ mutCount = 0
  /\ stepsSinceInit = 0
  /\ trailCapFixed = TRUE
  /\ effFresh = TRUE
  /\ twin = <<>>
  /\ ui = <<>>

PlacedSpec == PlacedInit /\ [][Next]_vars


(***************************************************************************)
(* Two engines, system and twin, constructed from the same configuration   *)
(* but for speedMultiplier and from the same random draws, and called      *)
(* alike but for setSpeedMultiplier.                                       *)
(***************************************************************************)
\* { ...cfg, speedMultiplier: s }
WithSpeedMultiplier(cfg, s) ==
  [f \in DOMAIN cfg \cup {"speedMultiplier"} |->
     IF f = "speedMultiplier" THEN s ELSE cfg[f]]

\* the speed multipliers that the twin is constructed with
TwinSpeeds == {Scale, 3 * Scale}

TwinInit ==
  /\ \E cfg \in ConstructConfigs, seed \in Seeds, s \in TwinSpeeds :
       /\ system = constructor(cfg, seed)
       /\ twin = constructor(WithSpeedMultiplier(cfg, s), seed)
  /\ lastOp = "constructor"
  /\ lastArg = 0
  /\ mutCount = 0
  /\ stepsSinceInit = 0
  /\ trailCapFixed = TRUE
  /\ effFresh = TRUE
  /\ ui = <<>>

\* the bookkeeping of a call that takes system to next and twin to nextTwin
TwinCalled(op, arg, next, nextTwin, isMutation) ==
  /\ system' = next
  /\ twin' = nextTwin
  /\ lastOp' = op
  /\ lastArg' = arg
  /\ mutCount' = IF isMutation THEN mutCount + 1 ELSE mutCount
  /\ stepsSinceInit' =
       IF op = "update" /\ system.running THEN stepsSinceInit + 1
       ELSE stepsSinceInit
  /\ UNCHANGED <<trailCapFixed, effFresh, ui>>

\* update() on both engines
TwinUpdate ==
  /\ system.running => stepsSinceInit < MaxSteps
  /\ TwinCalled("update", 0, update(system), update(twin), FALSE)

\* start() on both engines
TwinStart ==
  /\ TwinCalled("start", 0, start(system), start(twin), FALSE)

\* pause() on both engines
TwinPause ==
  /\ TwinCalled("pause", 0, pause(system), pause(twin), FALSE)

\* setSpeedMultiplier(s) on system alone
SetSpeedMultiplierOfSystem ==
  /\ mutCount < 2 * MaxMutations
  /\ \E s \in SpeedArgs :
       TwinCalled("setSpeedMultiplier", s, setSpeedMultiplier(system, s),
                  twin, TRUE)

\* setSpeedMultiplier(s) on twin alone
SetSpeedMultiplierOfTwin ==
  /\ mutCount < 2 * MaxMutations
  /\ \E s \in SpeedArgs :
       TwinCalled("setSpeedMultiplier", s, system,
                  setSpeedMultiplier(twin, s), TRUE)

TwinNext ==
  \/ TwinUpdate
  \/ TwinStart
  \/ TwinPause
  \/ SetSpeedMultiplierOfSystem
  \/ SetSpeedMultiplierOfTwin

TwinSpec == TwinInit /\ [][TwinNext]_vars


(***************************************************************************)
(* The engine as the canvas constructs it when it is given no              *)
(* configuration of its own.                                               *)
(***************************************************************************)
\* defaultConfig of the canvas, on a canvas of 100 by 80
CanvasDefaultConfig ==
  [G |-> 1000 * Scale,
   dt |-> Percent(2),
   canvasWidth |-> 100 * Scale,
   canvasHeight |-> 80 * Scale,
   maxTrailLength |-> 100,
   minMass |-> 100 * Scale,
   maxMass |-> 1000 * Scale,
   minVelocity |-> 0 - 20 * Scale,
   maxVelocity |-> 20 * Scale,
   numBodies |-> 3]

\* the argument of Math.pow(10, .) in the draw of the mass of body i (from 0)
massExponent(cfg, seed, i) ==
  random(MathRandom(seed, 5 * i + 2), cfg.minMass, cfg.maxMass)

\* The largest exponent e, at the resolution of the number model, for which
\* Math.pow(10, e) is a finite number: 308.25, the largest finite number
\* being 1.797...e308 = 10^308.2547.  The model's own MaxFinite is far
\* lower, so whether a drawn mass is finite in the program is decided on
\* its exponent.
MaxExponent == (30825 * Scale) \div 100

CanvasInit ==
  /\ \E seed \in Seeds : system = constructor(CanvasDefaultConfig, seed)
  /\ lastOp = "constructor"
  /\ lastArg = 0
  /\ mutCount = 0
  /\ stepsSinceInit = 0
  /\ trailCapFixed = TRUE
  /\ effFresh = TRUE
  /\ twin = <<>>
  /\ ui = <<>>

CanvasSpec == CanvasInit /\ [][Next]_vars


(***************************************************************************)
(* The engine constructed with every valid number of bodies and stepped,   *)
(* with no reconfiguration in between.                                     *)
(***************************************************************************)
\* the configurations: 2 to 5 bodies, trails of up to MaxTrail + 1 entries
StepConfigs ==
  {[c EXCEPT !.numBodies = n, !.maxTrailLength = t, !.G = g, !.dt = d] :
     c \in ConstructConfigs, n \in 2 .. 5, t \in 0 .. MaxTrail + 1,
     g \in GValues, d \in DtValues}

StepInit ==
  /\ \E cfg \in StepConfigs, seed \in Seeds :
       system = constructor(cfg, seed)
  /\ lastOp = "constructor"
  /\ lastArg = 0
  /\ mutCount = 0
  /\ stepsSinceInit = 0
  /\ trailCapFixed = TRUE
  /\ effFresh = TRUE
  /\ twin = <<>>
  /\ ui = <<>>

\* update(), up to MaxSteps + 1 running steps
LongUpdate ==
  /\ system.running => stepsSinceInit < MaxSteps + 1
  /\ Called("update", 0, update(system), FALSE)

StepNext ==
  \/ LongUpdate
  \/ Start
  \/ Pause
  \/ ToggleRunning

StepSpec == StepInit /\ [][StepNext]_vars



(***************************************************************************)
(* The engine without adaptive stepping (physics/ThreeBodySystem.ts), held *)
(* in twin as a record of bodies, config and running, next to the engine   *)
(* with it, both constructed from the same configuration and the same      *)
(* random draws and called alike.                                          *)
(***************************************************************************)
\* the fields of the ThreeBodyConfig of the engine without adaptive stepping
SimpleFields ==
  {"G", "dt", "canvasWidth", "canvasHeight", "maxTrailLength", "minMass",
   "maxMass", "minVelocity", "maxVelocity", "numBodies"}

\* new ThreeBodySystem(config) of the engine without adaptive stepping; its
\* initializeRandomBodies is that of the engine with it, line for line
simpleConstructor(cfg, seed) ==
  [bodies |-> initializeRandomBodies(cfg, seed),
   config |-> [f \in SimpleFields |-> cfg[f]],
   running |-> FALSE]

simpleCalculateForce(cfg, body1, body2) ==
  LET x1 == body1.position[1]
      y1 == body1.position[2]
      x2 == body2.position[1]
      y2 == body2.position[2]
      dx == FSub(x2, x1)
      dy == FSub(y2, y1)
      distSquared == FAdd(FMul(dx, dx), FMul(dy, dy))
      dist == FAdd(FSqrt(distSquared), Epsilon)
      forceMagnitude ==
        FDiv(FMul(FMul(cfg.G, body1.mass), body2.mass), distSquared)
      fx == FDiv(FMul(forceMagnitude, dx), dist)
      fy == FDiv(FMul(forceMagnitude, dy), dist)
  IN  <<fx, fy>>

\* forces[i] after the inner loop has visited bodies 1..j
RECURSIVE simpleForceUpTo(_, _, _, _)
simpleForceUpTo(cfg, bs, i, j) ==
  IF j = 0 THEN <<0, 0>>
  ELSE LET prev == simpleForceUpTo(cfg, bs, i, j - 1)
           f == simpleCalculateForce(cfg, bs[i], bs[j])
       IN  IF i # j THEN <<FAdd(prev[1], f[1]), FAdd(prev[2], f[2])>>
           ELSE prev

\* one pass of the second loop of update() over a body
simpleAdvance(body, force, dt, maxTrailLength) ==
  LET vx == FAdd(body.velocity[1], FMul(FDiv(force[1], body.mass), dt))
      vy == FAdd(body.velocity[2], FMul(FDiv(force[2], body.mass), dt))
      px == FAdd(body.position[1], FMul(vx, dt))
      py == FAdd(body.position[2], FMul(vy, dt))
      pushed == Append(body.trail, <<px, py>>)
  IN  [body EXCEPT
         !.velocity = <<vx, vy>>,
         !.position = <<px, py>>,
         !.trail = IF Len(pushed) > maxTrailLength THEN Tail(pushed)
                   ELSE pushed]

\* mutant of simpleUpdate: steps although the engine is paused
simpleUpdate_IgnoresPause(sys) ==
  LET dt == sys.config.dt
      maxTrailLength == sys.config.maxTrailLength
      numBodies == Len(sys.bodies)
      forces == [i \in 1 .. numBodies |->
                   simpleForceUpTo(sys.config, sys.bodies, i, numBodies)]
  IN  [sys EXCEPT
         !.bodies = [i \in 1 .. numBodies |->
                       simpleAdvance(sys.bodies[i], forces[i], dt,
                                     maxTrailLength)]]

simpleUpdate(sys) ==
  IF ~sys.running THEN sys
  ELSE LET dt == sys.config.dt
           maxTrailLength == sys.config.maxTrailLength
           numBodies == Len(sys.bodies)
           forces == [i \in 1 .. numBodies |->
                        simpleForceUpTo(sys.config, sys.bodies, i, numBodies)]
       IN  [sys EXCEPT
              !.bodies = [i \in 1 .. numBodies |->
                            simpleAdvance(sys.bodies[i], forces[i], dt,
                                          maxTrailLength)]]

simpleStart(sys) == [sys EXCEPT !.running = TRUE]

simplePause(sys) == [sys EXCEPT !.running = FALSE]

simpleToggleRunning(sys) == [sys EXCEPT !.running = ~sys.running]

\* the configurations that the pair of engines is constructed from: those of
\* the stepped engine, and those with the adaptive step off at three times
\* the speed
PairConfigs ==
  StepConfigs \cup
  {WithSpeedMultiplier(c, 3 * Scale) :
     c \in {d \in StepConfigs : "useAdaptiveTimeStep" \in DOMAIN d}}

PairInit ==
  /\ \E cfg \in PairConfigs, seed \in Seeds :
       /\ system = constructor(cfg, seed)
       /\ twin = simpleConstructor(cfg, seed)
  /\ lastOp = "constructor"
  /\ lastArg = 0
  /\ mutCount = 0
  /\ stepsSinceInit = 0
  /\ trailCapFixed = TRUE
  /\ effFresh = TRUE
  /\ ui = <<>>

\* update() on both engines
PairUpdate ==
  /\ system.running => stepsSinceInit < MaxSteps + 1
  /\ TwinCalled("update", 0, update(system), simpleUpdate(twin), FALSE)

\* start() on both engines
PairStart ==
  /\ TwinCalled("start", 0, start(system), simpleStart(twin), FALSE)

\* pause() on both engines
PairPause ==
  /\ TwinCalled("pause", 0, pause(system), simplePause(twin), FALSE)

\* toggleRunning() on both engines
PairToggleRunning ==
  /\ TwinCalled("toggleRunning", 0, toggleRunning(system),
                simpleToggleRunning(twin), FALSE)

PairNext ==
  \/ PairUpdate
  \/ PairStart
  \/ PairPause
  \/ PairToggleRunning

PairSpec == PairInit /\ [][PairNext]_vars


(***************************************************************************)
(* The canvas component (components/ThreeBodyCanvas.tsx) and its container *)
(* (SimulationContainer).  The engine that the canvas owns,                *)
(* systemRef.current, is held in system; ui is a record of the state of    *)
(* the two components, of the frame callbacks that the browser holds, and  *)
(* of counters of what has happened since the latest user action, trigger. *)
(* A                                                                       *)
(* canvas is the one of components/ThreeBodyCanvas.tsx, or, where legacy   *)
(* is TRUE, the older one of three-body-simulation/.  The container of the  *)
(* canvas keeps its size: the resize and fullscreen handlers are left out. *)
(***************************************************************************)
MaxFrames == 2
MaxUserActions == 2

\* containerRef.current.getBoundingClientRect(), and the canvas dimensions
containerRect == [width |-> 100 * Scale, height |-> 80 * Scale]

\* the initial state of config in SimulationContainer
ContainerConfig ==
  [G |-> 1000 * Scale,
   dt |-> Percent(3),
   speedMultiplier |-> Scale,
   useAdaptiveTimeStep |-> TRUE,
   maxPositionChangeRatio |-> Percent(1),
   maxTrailLength |-> 500,
   numBodies |-> 3]

\* { ...defaultConfig, ...config }
mergedConfig(config) ==
  [f \in DOMAIN CanvasDefaultConfig \cup DOMAIN config |->
     IF f \in DOMAIN config THEN config[f] ELSE CanvasDefaultConfig[f]]

\* the initial value of cameraRef, and the camera after a reset
HomeCamera == [x |-> 0, y |-> 0, zoom |-> Scale, autoFollow |-> TRUE]

\* bodies.reduce((sum, body) => sum + body.position[c], 0) over bodies 1..i
RECURSIVE SumUpTo(_, _, _)
SumUpTo(bodies, i, c) ==
  IF i = 0 THEN 0
  ELSE FAdd(SumUpTo(bodies, i - 1, c), bodies[i].position[c])

\* the points that the forEach includes in the bounding box, in its order,
\* over the bodies 1..i: of every body its position, then its trail
RECURSIVE PointsUpTo(_, _)
PointsUpTo(bodies, i) ==
  IF i = 0 THEN <<>>
  ELSE PointsUpTo(bodies, i - 1) \o <<bodies[i].position>> \o bodies[i].trail

\* min after Math.min(min, pos[c]) over the points 1..k, from Infinity
RECURSIVE MinUpTo(_, _, _)
MinUpTo(pts, k, c) ==
  IF k = 0 THEN PosInf ELSE FMin(MinUpTo(pts, k - 1, c), pts[k][c])

\* max after Math.max(max, pos[c]) over the points 1..k, from -Infinity
RECURSIVE MaxUpTo(_, _, _)
MaxUpTo(pts, k, c) ==
  IF k = 0 THEN NegInf ELSE FMax(MaxUpTo(pts, k - 1, c), pts[k][c])

\* minX, maxX, minY, maxY after the forEach over bodies
IncludeBodies(bodies) ==
  LET Extent(pts) ==
        [minX |-> MinUpTo(pts, Len(pts), 1),
         maxX |-> MaxUpTo(pts, Len(pts), 1),
         minY |-> MinUpTo(pts, Len(pts), 2),
         maxY |-> MaxUpTo(pts, Len(pts), 2)]
  IN  Extent(PointsUpTo(bodies, Len(bodies)))

\* the stages of the function in its order, each one an operator of the
\* values that the stages before it have computed
calculateBoundingBox(bodies, width, height) ==
  IF Len(bodies) = 0
  THEN [minX |-> FDiv(FNeg(width), 2 * Scale),
        maxX |-> FDiv(width, 2 * Scale),
        minY |-> FDiv(FNeg(height), 2 * Scale),
        maxY |-> FDiv(height, 2 * Scale),
        centerX |-> 0,
        centerY |-> 0]
  ELSE
    LET escapeThreshold == FMul(FMax(width, height), 3 * Scale)
        minWidth == FMul(width, Percent(20))
        minHeight == FMul(height, Percent(20))
        \* the returned object
        Box(minX, maxX, minY, maxY) ==
          [minX |-> minX,
           maxX |-> maxX,
           minY |-> minY,
           maxY |-> maxY,
           centerX |-> FDiv(FAdd(minX, maxX), 2 * Scale),
           centerY |-> FDiv(FAdd(minY, maxY), 2 * Scale)]
        \* the minimum dimensions, enforced on the padded box
        Enforced(minX, maxX, minY, maxY) ==
          LET narrow == FLt(FSub(maxX, minX), minWidth)
              low == FLt(FSub(maxY, minY), minHeight)
              centerX == FDiv(FAdd(minX, maxX), 2 * Scale)
              centerY == FDiv(FAdd(minY, maxY), 2 * Scale)
          IN  Box(IF narrow THEN FSub(centerX, FDiv(minWidth, 2 * Scale))
                  ELSE minX,
                  IF narrow THEN FAdd(centerX, FDiv(minWidth, 2 * Scale))
                  ELSE maxX,
                  IF low THEN FSub(centerY, FDiv(minHeight, 2 * Scale))
                  ELSE minY,
                  IF low THEN FAdd(centerY, FDiv(minHeight, 2 * Scale))
                  ELSE maxY)
        \* the padding, added to the box found
        Padded(found) ==
          LET paddingX == FMax(FMul(FSub(found.maxX, found.minX), Percent(20)),
                               50 * Scale)
              paddingY == FMax(FMul(FSub(found.maxY, found.minY), Percent(20)),
                               50 * Scale)
          IN  Enforced(FSub(found.minX, paddingX), FAdd(found.maxX, paddingX),
                       FSub(found.minY, paddingY), FAdd(found.maxY, paddingY))
        BodiesToUse(nonEscapingBodies) ==
          IF Len(nonEscapingBodies) > 1 THEN nonEscapingBodies ELSE bodies
        \* the bodies within the escape threshold of the average position
        Around(avgX, avgY) ==
          LET NotEscaping(body) ==
                LET dx == FSub(body.position[1], avgX)
                    dy == FSub(body.position[2], avgY)
                    distance == FSqrt(FAdd(FMul(dx, dx), FMul(dy, dy)))
                IN  FLt(distance, escapeThreshold)
          IN  Padded(IncludeBodies(BodiesToUse(SelectSeq(bodies, NotEscaping))))
    IN  Around(FDiv(SumUpTo(bodies, Len(bodies), 1), Len(bodies) * Scale),
               FDiv(SumUpTo(bodies, Len(bodies), 2), Len(bodies) * Scale))

\* cameraRef.current after updateCamera(bodies)
updateCamera(camera, bodies) ==
  IF ~camera.autoFollow THEN camera
  ELSE
    LET width == containerRect.width
        height == containerRect.height
        smoothingFactor == Percent(10)
        \* the position, smoothed towards the centre of bounds at newZoom
        Moved(bounds, newZoom) ==
          LET targetX == FSub(FDiv(width, 2 * Scale),
                              FMul(bounds.centerX, newZoom))
              targetY == FSub(FDiv(height, 2 * Scale),
                              FMul(bounds.centerY, newZoom))
          IN  [x |-> FAdd(camera.x,
                          FMul(FSub(targetX, camera.x), smoothingFactor)),
               y |-> FAdd(camera.y,
                          FMul(FSub(targetY, camera.y), smoothingFactor)),
               zoom |-> newZoom,
               autoFollow |-> camera.autoFollow]
        \* the zoom, smoothed towards the zoom that fits bounds
        Zoomed(bounds) ==
          LET contentWidth == FSub(bounds.maxX, bounds.minX)
              contentHeight == FSub(bounds.maxY, bounds.minY)
              zoomX == FDiv(width, contentWidth)
              zoomY == FDiv(height, contentHeight)
              targetZoom == FMin(FMin(zoomX, zoomY), Scale)
          IN  Moved(bounds,
                    FAdd(camera.zoom,
                         FMul(FSub(targetZoom, camera.zoom), smoothingFactor)))
    IN  Zoomed(calculateBoundingBox(bodies, width, height))

\* requestAnimationFrame(renderFrame), its id stored in animationFrameRef
requestFrame(u) ==
  [u EXCEPT !.scheduled = @ \cup {u.nextFrameId},
            !.animationFrameRef = u.nextFrameId,
            !.nextFrameId = @ + 1]

\* mutant of cancelFrame: the pending frame is left scheduled
cancelFrame_KeepsFrame(u) ==
  IF u.animationFrameRef = 0 THEN u
  ELSE [u EXCEPT !.animationFrameRef = IF u.legacy THEN @ ELSE 0]

\* the cleanup of the mount effect: cancelAnimationFrame of the pending
\* frame; 0 stands for null
cancelFrame(u) ==
  IF u.animationFrameRef = 0 THEN u
  ELSE [u EXCEPT !.scheduled = @ \ {u.animationFrameRef},
                 !.animationFrameRef = IF u.legacy THEN @ ELSE 0]

\* ui after startAnimation()
startAnimation(sys, u) ==
  IF u.legacy
  THEN (IF ~u.canvas THEN u ELSE requestFrame(u))
  ELSE LET Guarded(u1) ==
             IF u1.animationFrameRef = 0 THEN requestFrame(u1) ELSE u1
       IN  Guarded(IF Len(sys.bodies) > 0
                   THEN [u EXCEPT !.camera = updateCamera(@, sys.bodies)]
                   ELSE u)

\* handleReset of SimulationContainer, the onReset of the canvas:
\* setConfig((prev) => ({ ...prev })) publishes a new config object
onReset(u) == [u EXCEPT !.renderPending = TRUE, !.onResets = @ + 1]

\* the engine and ui after the mount effect of the canvas
mountEffect(u, seed) ==
  LET Started(sys) ==
        [system |-> sys,
         ui |-> startAnimation(
                  sys,
                  IF u.legacy THEN u
                  ELSE [cancelFrame(u) EXCEPT
                          !.camera =
                            [x |-> FDiv(containerRect.width, 2 * Scale),
                             y |-> FDiv(containerRect.height, 2 * Scale),
                             zoom |-> Scale,
                             autoFollow |-> TRUE]])]
  IN  Started(start(constructor(mergedConfig(u.config), seed)))

\* mutant of configEffect: onReset is called on every run
configEffect_AlwaysResets(sys, u, seed) ==
  LET changed == Len(sys.bodies) # u.config.numBodies
      Forwarded(s1) ==
        LET u0 == [u EXCEPT !.renderPending = FALSE,
                            !.effectRuns = @ + 1,
                            !.reinits = @ + (s1.bodiesId - sys.bodiesId)]
        IN  [system |->
               [s1 EXCEPT !.config.G = u.config.G,
                          !.config.dt = u.config.dt,
                          !.config.maxTrailLength = u.config.maxTrailLength],
             ui |-> onReset(IF changed /\ ~u.legacy
                            THEN [u0 EXCEPT !.camera = HomeCamera] ELSE u0)]
  IN  Forwarded(IF changed THEN setNumBodies(sys, u.config.numBodies, seed)
                ELSE sys)

\* the engine and ui after a run of the config effect of the canvas
configEffect(sys, u, seed) ==
  LET changed == Len(sys.bodies) # u.config.numBodies
      Forwarded(s1) ==
        LET u0 == [u EXCEPT !.renderPending = FALSE,
                            !.effectRuns = @ + 1,
                            !.reinits = @ + (s1.bodiesId - sys.bodiesId)]
        IN  [system |->
               [s1 EXCEPT !.config.G = u.config.G,
                          !.config.dt = u.config.dt,
                          !.config.maxTrailLength = u.config.maxTrailLength],
             ui |-> IF changed
                    THEN onReset(IF u.legacy THEN u0
                                 ELSE [u0 EXCEPT !.camera = HomeCamera])
                    ELSE u0]
  IN  Forwarded(IF changed THEN setNumBodies(sys, u.config.numBodies, seed)
                ELSE sys)

\* the engine and ui after one call of renderFrame
renderFrame(sys, u) ==
  IF ~u.canvas
  THEN [system |-> sys, ui |-> IF u.legacy THEN u ELSE requestFrame(u)]
  ELSE
    \* the older canvas calls update() on every frame, the canvas only
    \* if (systemRef.current.isRunning())
    LET calls == u.legacy \/ isRunning(sys)
        Rendered(s1) ==
          [system |-> s1,
           ui |-> requestFrame(
                    [u EXCEPT
                       !.updates = IF calls THEN @ + 1 ELSE @,
                       !.camera = IF u.legacy THEN @
                                  ELSE updateCamera(@, s1.bodies)])]
    IN  Rendered(IF calls THEN update(sys) ELSE sys)

\* the smallest of a non-empty set of frame ids
FirstFrame(ids) == CHOOSE id \in ids : \A other \in ids : id <= other

\* the engine and ui after the browser has called the frame callbacks ids,
\* in the order of their requests
RECURSIVE runFrames(_, _)
runFrames(st, ids) ==
  IF ids = {} THEN st
  ELSE LET id == FirstFrame(ids)
       IN  runFrames(renderFrame(st.system,
                                 [st.ui EXCEPT !.scheduled = @ \ {id}]),
                     ids \ {id})

\* ui after handleMouseDown
handleMouseDown(u, clientX, clientY) ==
  [u EXCEPT !.drag = [isDragging |-> TRUE, lastX |-> clientX,
                      lastY |-> clientY],
            !.camera.autoFollow = FALSE]

\* ui after handleMouseMove
handleMouseMove(u, clientX, clientY) ==
  IF ~u.drag.isDragging THEN u
  ELSE [u EXCEPT
          !.camera = [x |-> FAdd(u.camera.x, FSub(clientX, u.drag.lastX)),
                      y |-> FAdd(u.camera.y, FSub(clientY, u.drag.lastY)),
                      zoom |-> u.camera.zoom,
                      autoFollow |-> FALSE],
          !.drag.lastX = clientX,
          !.drag.lastY = clientY]

\* ui after handleMouseUp or handleMouseLeave
handleMouseUp(u) == [u EXCEPT !.drag.isDragging = FALSE]

\* ui after handleWheel, the canvas at the origin of the client area
handleWheel(u, deltaY, mouseX, mouseY) ==
  LET zoomFactor == Percent(10)
      delta == IF deltaY > 0 THEN 0 - zoomFactor ELSE zoomFactor
      prevCamera == u.camera
      newZoom == FMax(Percent(10),
                      FMin(5 * Scale,
                           FMul(prevCamera.zoom, FAdd(Scale, delta))))
      zoomRatio == FDiv(newZoom, prevCamera.zoom)
  IN  [u EXCEPT
         !.camera = [x |-> FSub(mouseX, FMul(FSub(mouseX, prevCamera.x),
                                             zoomRatio)),
                     y |-> FSub(mouseY, FMul(FSub(mouseY, prevCamera.y),
                                             zoomRatio)),
                     zoom |-> newZoom,
                     autoFollow |-> FALSE]]

\* ui after toggleAutoFollow
toggleAutoFollow(u) == [u EXCEPT !.camera.autoFollow = ~@]

\* the engine and ui after handleReset of the canvas
handleReset(sys, u, seed) ==
  [system |-> reset(sys, seed),
   ui |-> onReset([u EXCEPT
                     !.reinits = @ + 1,
                     !.camera = IF u.legacy THEN @ ELSE HomeCamera])]

\* ui after setConfig((prev) => ({ ...prev, [f]: v })) in the container
setConfig(u, f, v) ==
  [u EXCEPT !.config = [@ EXCEPT ![f] = v], !.renderPending = TRUE]

\* the counters of what has happened since the latest user action, at a
\* user action
Fresh(u) == [u EXCEPT !.reinits = 0, !.onResets = 0, !.effectRuns = 0]

\* the state of a canvas instance before its effects have run
NewCanvas(legacy, config, scheduled, nextFrameId) ==
  [legacy |-> legacy,
   mounted |-> TRUE,
   canvas |-> TRUE,
   config |-> config,
   renderPending |-> FALSE,
   camera |-> HomeCamera,
   drag |-> [isDragging |-> FALSE, lastX |-> 0, lastY |-> 0],
   animationFrameRef |-> 0,
   scheduled |-> scheduled,
   nextFrameId |-> nextFrameId,
   frames |-> 0,
   updates |-> 0,
   trigger |-> "mount",
   reinits |-> 0,
   onResets |-> 0,
   effectRuns |-> 0]

\* the engine and ui after a canvas instance has been mounted: its mount
\* effect and the first run of its config effect
mountCanvas(u, seed) ==
  LET Counted(after) == [system |-> after.system, ui |-> Fresh(after.ui)]
      Effected(st) == Counted(configEffect(st.system, st.ui, seed))
  IN  Effected(mountEffect(u, seed))

\* the positions of the mouse in the client area, and the values that the
\* controls of the container are moved to
ClientPoints == {<<0, 0>>, <<10 * Scale, 5 * Scale>>}
WheelDeltas == {0 - 1, 1}
SliderG == {500 * Scale}
SliderDt == {Percent(5)}
SliderSpeed == {2 * Scale}
SliderRatio == {Percent(2)}
SliderNumBodies == 2 .. 5
SelectTrail == {100}

UiInit ==
  /\ \E legacy \in BOOLEAN, seed \in Seeds :
       \E st \in {mountCanvas(NewCanvas(legacy, ContainerConfig, {}, 1), seed)} :
         /\ system = st.system
         /\ ui = st.ui
  /\ lastOp = "mount"
  /\ lastArg = 0
  /\ mutCount = 0
  /\ stepsSinceInit = 0
  /\ trailCapFixed = TRUE
  /\ effFresh = TRUE
  /\ twin = <<>>

\* the bookkeeping of a step of the canvas or its container that takes the
\* engine and ui to st
UiCalled(op, arg, st, isUser) ==
  /\ system' = st.system
  /\ ui' = IF isUser THEN [st.ui EXCEPT !.trigger = op] ELSE st.ui
  /\ lastOp' = op
  /\ lastArg' = arg
  /\ mutCount' = IF isUser THEN mutCount + 1 ELSE mutCount
  /\ UNCHANGED <<stepsSinceInit, trailCapFixed, effFresh, twin>>

\* a user event is handled once the effects of the previous one have run:
\* React runs the effects of a render before it handles the next event
UserTurn ==
  /\ ui.mounted
  /\ ~ui.renderPending
  /\ mutCount < MaxUserActions

\* the browser presents a frame: it calls the frame callbacks requested
\* before it
DisplayFrame ==
  /\ ui.scheduled # {}
  /\ ui.frames < MaxFrames
  /\ UiCalled("renderFrame", 0,
              runFrames([system |-> system,
                         ui |-> [ui EXCEPT !.frames = @ + 1, !.updates = 0]],
                        ui.scheduled),
              FALSE)

\* React runs the config effect after the container has published a config
ConfigEffect ==
  /\ ui.mounted
  /\ ui.renderPending
  /\ \E seed \in Seeds :
       UiCalled("configEffect", 0, configEffect(system, ui, seed), FALSE)

\* the canvas is unmounted: the cleanup of its mount effect runs
Unmount ==
  /\ UserTurn
  /\ UiCalled("unmount", 0,
              [system |-> system,
               ui |-> [cancelFrame(Fresh(ui)) EXCEPT !.mounted = FALSE,
                                                     !.canvas = FALSE]],
              TRUE)

\* a new canvas instance is mounted in the place of the unmounted one
Remount ==
  /\ ~ui.mounted
  /\ \E seed \in Seeds :
       UiCalled("mount", 0,
                [mountCanvas(NewCanvas(ui.legacy, ui.config, ui.scheduled,
                                       ui.nextFrameId), seed)
                   EXCEPT !.ui.frames = ui.frames,
                          !.ui.trigger = "remount"],
                FALSE)

\* the older canvas is given a new width or height: the cleanup of its
\* mount effect runs, then the effect again
LegacyResize ==
  /\ UserTurn
  /\ ui.legacy
  /\ \E seed \in Seeds :
       UiCalled("resize", 0, mountEffect(cancelFrame(Fresh(ui)), seed), TRUE)

\* canvasRef.current becomes null, or the canvas element again
CanvasDetach ==
  /\ ui.mounted
  /\ ui.canvas
  /\ mutCount < MaxUserActions
  /\ UiCalled("detach", 0,
              [system |-> system, ui |-> [Fresh(ui) EXCEPT !.canvas = FALSE]],
              TRUE)

CanvasAttach ==
  /\ ui.mounted
  /\ ~ui.canvas
  /\ UiCalled("attach", 0,
              [system |-> system, ui |-> [ui EXCEPT !.canvas = TRUE]], FALSE)

\* the Reset button of the canvas
HandleReset ==
  /\ UserTurn
  /\ \E seed \in Seeds :
       UiCalled("handleReset", 0, handleReset(system, Fresh(ui), seed), TRUE)

\* the play/pause button of the canvas
HandlePlayPause ==
  /\ UserTurn
  /\ UiCalled("handlePlayPause", 0,
              [system |-> toggleRunning(system), ui |-> Fresh(ui)], TRUE)

\* the Auto-Follow button of the canvas
ToggleAutoFollow ==
  /\ UserTurn
  /\ ~ui.legacy
  /\ UiCalled("toggleAutoFollow", 0,
              [system |-> system, ui |-> toggleAutoFollow(Fresh(ui))], TRUE)

HandleMouseDown ==
  /\ UserTurn
  /\ ~ui.legacy
  /\ ui.canvas
  /\ \E p \in ClientPoints :
       UiCalled("handleMouseDown", 0,
                [system |-> system,
                 ui |-> handleMouseDown(Fresh(ui), p[1], p[2])], TRUE)

HandleMouseMove ==
  /\ UserTurn
  /\ ~ui.legacy
  /\ ui.canvas
  /\ \E p \in ClientPoints :
       UiCalled("handleMouseMove", 0,
                [system |-> system,
                 ui |-> handleMouseMove(Fresh(ui), p[1], p[2])], TRUE)

HandleMouseUp ==
  /\ UserTurn
  /\ ~ui.legacy
  /\ ui.canvas
  /\ UiCalled("handleMouseUp", 0,
              [system |-> system, ui |-> handleMouseUp(Fresh(ui))], TRUE)

HandleWheel ==
  /\ UserTurn
  /\ ~ui.legacy
  /\ ui.canvas
  /\ \E deltaY \in WheelDeltas, p \in ClientPoints :
       UiCalled("handleWheel", deltaY,
                [system |-> system,
                 ui |-> handleWheel(Fresh(ui), deltaY, p[1], p[2])], TRUE)

\* the controls of the container
HandleGConstantChange ==
  /\ UserTurn
  /\ \E value \in SliderG :
       UiCalled("handleGConstantChange", value,
                [system |-> system, ui |-> setConfig(Fresh(ui), "G", value)],
                TRUE)

HandleDtChange ==
  /\ UserTurn
  /\ \E value \in SliderDt :
       UiCalled("handleDtChange", value,
                [system |-> system, ui |-> setConfig(Fresh(ui), "dt", value)],
                TRUE)

HandleSpeedMultiplierChange ==
  /\ UserTurn
  /\ \E value \in SliderSpeed :
       UiCalled("handleSpeedMultiplierChange", value,
                [system |-> system,
                 ui |-> setConfig(Fresh(ui), "speedMultiplier", value)], TRUE)

HandleAdaptiveTimeStepChange ==
  /\ UserTurn
  /\ UiCalled("handleAdaptiveTimeStepChange", 0,
              [system |-> system,
               ui |-> setConfig(Fresh(ui), "useAdaptiveTimeStep",
                                ~ui.config.useAdaptiveTimeStep)], TRUE)

HandlePositionChangeRatioChange ==
  /\ UserTurn
  /\ \E value \in SliderRatio :
       UiCalled("handlePositionChangeRatioChange", value,
                [system |-> system,
                 ui |-> setConfig(Fresh(ui), "maxPositionChangeRatio", value)],
                TRUE)

\* the body-count slider is moved to a new value
HandleNumBodiesChange ==
  /\ UserTurn
  /\ \E value \in SliderNumBodies \ {ui.config.numBodies} :
       UiCalled("handleNumBodiesChange", value,
                [system |-> system,
                 ui |-> setConfig(Fresh(ui), "numBodies", value)], TRUE)

HandleTrailLengthChange ==
  /\ UserTurn
  /\ \E value \in SelectTrail :
       UiCalled("handleTrailLengthChange", value,
                [system |-> system,
                 ui |-> setConfig(Fresh(ui), "maxTrailLength", value)], TRUE)

\* the canvas of components/ThreeBodyCanvas.tsx, mounted
CameraInit ==
  /\ UiInit
  /\ ~ui.legacy

\* the container and the canvas under the controls of the container and the
\* buttons of the canvas that act on the engine
ControlsNext ==
  \/ DisplayFrame
  \/ ConfigEffect
  \/ HandleReset
  \/ HandlePlayPause
  \/ HandleGConstantChange
  \/ HandleDtChange
  \/ HandleSpeedMultiplierChange
  \/ HandleAdaptiveTimeStepChange
  \/ HandlePositionChangeRatioChange
  \/ HandleNumBodiesChange
  \/ HandleTrailLengthChange

ControlsSpec == UiInit /\ [][ControlsNext]_vars

\* the frame loop of the canvas under mounting, unmounting and the buttons of
\* the canvas that act on the engine
LoopNext ==
  \/ DisplayFrame
  \/ ConfigEffect
  \/ Unmount
  \/ Remount
  \/ LegacyResize
  \/ CanvasDetach
  \/ CanvasAttach
  \/ HandleReset
  \/ HandlePlayPause

LoopSpec == UiInit /\ [][LoopNext]_vars

\* the camera of the canvas under the pointer events, the buttons of the
\* canvas and the body-count slider
CameraNext ==
  \/ DisplayFrame
  \/ ConfigEffect
  \/ HandleReset
  \/ HandleNumBodiesChange
  \/ ToggleAutoFollow
  \/ HandleMouseDown
  \/ HandleMouseMove
  \/ HandleMouseUp
  \/ HandleWheel

CameraSpec == CameraInit /\ [][CameraNext]_vars


(***************************************************************************)
(* Properties                                                              *)
(***************************************************************************)
\* the call made last was an update() on a running engine
RunningUpdate == lastOp = "update" /\ system.running

Masses(sys) == [i \in 1 .. Len(sys.bodies) |-> sys.bodies[i].mass]

\* the forces that update() computes from the bodies of sys
Forces(sys) ==
  [i \in 1 .. Len(sys.bodies) |->
     ForceUpTo(sys.config, sys.bodies, i, Len(sys.bodies))]

\* C1: an update() call on a paused engine changes no body (position,
\* velocity, trail) and does not change the stored effective time step.
C1_PausedUpdateChangesNothing ==
  [][(lastOp' = "update" /\ ~system.running)
       => /\ system'.bodies = system.bodies
          /\ system'.effectiveTimeStep = system.effectiveTimeStep]_vars

\* C1 witness: update() was called on an engine paused after it had run.
C1_Witness ==
  /\ lastOp = "update"
  /\ ~system.running
  /\ stepsSinceInit > 0
  /\ Len(system.bodies) >= 2

\* C2: while maxTrailLength keeps its value, no trail is ever longer than
\* maxTrailLength, and from maxTrailLength running steps after an
\* initialization on every trail has exactly that length.
C2_TrailBound ==
  trailCapFixed =>
    \A i \in 1 .. Len(system.bodies) :
      /\ Len(system.bodies[i].trail) <= system.config.maxTrailLength
      /\ stepsSinceInit >= system.config.maxTrailLength
           => Len(system.bodies[i].trail) = system.config.maxTrailLength

\* C2 witness: more running steps than a positive maxTrailLength were taken
\* since the initialization, so an oldest entry has been dropped.
C2_Witness ==
  /\ trailCapFixed
  /\ system.config.maxTrailLength > 0
  /\ stepsSinceInit > system.config.maxTrailLength
  /\ Len(system.bodies) >= 2

\* C3: after a running step, taken with whatever value maxTrailLength has
\* been given, no trail is longer than maxTrailLength.
C3_TrailFollowsCapacity ==
  RunningUpdate =>
    \A i \in 1 .. Len(system.bodies) :
      Len(system.bodies[i].trail) <= system.config.maxTrailLength

\* C4 as claimed: with useAdaptiveTimeStep = false, getEffectiveTimeStep()
\* equals config.dt in every reachable state.
C4_AlwaysBaseDt ==
  ~system.config.useAdaptiveTimeStep
    => getEffectiveTimeStep(system) = system.config.dt

\* C4 as amended: with useAdaptiveTimeStep = false, getEffectiveTimeStep()
\* equals config.dt in every state in which neither config.dt nor the flag
\* has changed since the construction or the last running step.
C4_BaseDtWhenFresh ==
  (~system.config.useAdaptiveTimeStep /\ effFresh)
    => getEffectiveTimeStep(system) = system.config.dt

\* C4 witness: a running step without adaptive stepping, taken after
\* config.dt was given another value than at construction.
C4_Witness ==
  /\ RunningUpdate
  /\ ~system.config.useAdaptiveTimeStep
  /\ effFresh
  /\ system.config.dt = Percent(20)
  /\ Len(system.bodies) >= 2

\* C5: a running update() moves every body with the time step that
\* getEffectiveTimeStep() returns after it (velocity += force / mass * step,
\* position += velocity * step), and no other call changes that value.
C5_EffectiveStepIsTheStepUsed ==
  [][IF lastOp' = "update" /\ system.running
     THEN system'.bodies =
            [i \in 1 .. Len(system.bodies) |->
               advance(system.bodies[i], Forces(system)[i],
                       getEffectiveTimeStep(system'),
                       system.config.maxTrailLength)]
     ELSE getEffectiveTimeStep(system') = getEffectiveTimeStep(system)]_vars

\* C5 witness: a running step whose adaptive time step is not the base one.
C5_Witness ==
  /\ RunningUpdate
  /\ Len(system.bodies) >= 2
  /\ getEffectiveTimeStep(system) # system.config.dt

\* C6: setNumBodies(n) with n outside [2,5] or equal to config.numBodies
\* changes nothing: configuration, body array (the same array object, the
\* same contents), running flag, effective time step.
C6_RejectedSetNumBodies ==
  [][(/\ lastOp' = "setNumBodies"
      /\ \/ lastArg' < 2
         \/ lastArg' > 5
         \/ lastArg' = system.config.numBodies)
       => system' = system]_vars

\* C6 witness: setNumBodies was called with the current number of bodies
\* after running steps, and the body array is still the constructor's.
C6_Witness ==
  /\ lastOp = "setNumBodies"
  /\ lastArg = system.config.numBodies
  /\ lastArg \in 2 .. 5
  /\ system.bodiesId = 1
  /\ stepsSinceInit > 0

\* C7: setNumBodies(n) with 2 <= n <= 5 and n # config.numBodies sets
\* config.numBodies to n and nothing else in the configuration, replaces the
\* body array by a fresh initialization of n bodies with empty trails, and
\* keeps the running flag.
C7_AcceptedSetNumBodies ==
  [][(/\ lastOp' = "setNumBodies"
      /\ lastArg' >= 2
      /\ lastArg' <= 5
      /\ lastArg' # system.config.numBodies)
       => /\ system'.config = [system.config EXCEPT !.numBodies = lastArg']
          /\ Len(system'.bodies) = lastArg'
          /\ \A i \in 1 .. Len(system'.bodies) : system'.bodies[i].trail = <<>>
          /\ system'.bodiesId # system.bodiesId
          /\ \E seed \in Seeds :
               system'.bodies = initializeRandomBodies(system'.config, seed)
          /\ system'.running = system.running]_vars

\* C7 witness: an accepted setNumBodies on a running engine.
C7_Witness ==
  /\ lastOp = "setNumBodies"
  /\ system.bodiesId > 1
  /\ system.running
  /\ Len(system.bodies) = lastArg

\* C8: config.numBodies is in [2,5] in every reachable state.
C8_NumBodiesInRange == system.config.numBodies \in 2 .. 5

\* C9: reset() replaces the body array by a fresh initialization from the
\* current configuration (config.numBodies bodies, empty trails) and changes
\* neither the running flag nor the configuration.
C9_Reset ==
  [][lastOp' = "reset"
       => /\ Len(system'.bodies) = system.config.numBodies
          /\ \A i \in 1 .. Len(system'.bodies) : system'.bodies[i].trail = <<>>
          /\ system'.bodiesId # system.bodiesId
          /\ \E seed \in Seeds :
               system'.bodies = initializeRandomBodies(system.config, seed)
          /\ system'.running = system.running
          /\ system'.config = system.config]_vars

\* C9 witness: a reset of a running engine.
C9_Witness ==
  /\ lastOp = "reset"
  /\ system.running
  /\ system.bodiesId > 1
  /\ Len(system.bodies) >= 2

\* C10: update() changes no mass; the masses change only in a call that
\* replaces the body array (reset, accepted setNumBodies).
C10_MassInvariant ==
  [][/\ lastOp' = "update" => Masses(system') = Masses(system)
     /\ Masses(system') # Masses(system)
          => /\ system'.bodiesId # system.bodiesId
             /\ lastOp' \in {"reset", "setNumBodies"}]_vars

\* C10 witness: several running steps on the same bodies.
C10_Witness ==
  /\ RunningUpdate
  /\ stepsSinceInit >= 2
  /\ Len(system.bodies) >= 2

\* every coordinate of every position and velocity is a finite number
AllFinite(sys) ==
  \A i \in 1 .. Len(sys.bodies) :
    /\ IsFinite(sys.bodies[i].position[1])
    /\ IsFinite(sys.bodies[i].position[2])
    /\ IsFinite(sys.bodies[i].velocity[1])
    /\ IsFinite(sys.bodies[i].velocity[2])

\* two bodies are at exactly the same position
Coincident(sys) ==
  \E i, j \in 1 .. Len(sys.bodies) :
    i # j /\ sys.bodies[i].position = sys.bodies[j].position

\* C11: a running step of an engine in which two bodies are at exactly the
\* same (finite) position leaves every velocity and every position finite:
\* the force between the two is a finite number.
C11_CoincidentStepFinite ==
  [][(/\ lastOp' = "update"
      /\ system.running
      /\ Coincident(system)
      /\ AllFinite(system))
       => AllFinite(system')]_vars

C13_SetSpeedMultiplier ==
  [][lastOp' = "setSpeedMultiplier"
       => /\ system'.config =
               [system.config EXCEPT
                  !.speedMultiplier = IF lastArg' > 0 THEN lastArg' ELSE @]
          /\ system'.bodies = system.bodies
          /\ system'.bodiesId = system.bodiesId
          /\ isRunning(system') = isRunning(system)
          /\ getEffectiveTimeStep(system') = getEffectiveTimeStep(system)]_vars

\* C13 witness: setSpeedMultiplier was called with a non-positive argument
\* on a running engine that has taken steps, and the multiplier is still
\* positive.
C13_Witness ==
  /\ lastOp = "setSpeedMultiplier"
  /\ lastArg <= 0
  /\ system.config.speedMultiplier > 0
  /\ system.running
  /\ stepsSinceInit > 0
  /\ Len(system.bodies) >= 2

\* the calls that write the running flag
FlagOps == {"start", "pause", "toggleRunning"}

\* C14: a newly constructed engine is paused; start() leads to running,
\* pause() to paused, toggleRunning() to the other state, and two toggles
\* restore the engine; isRunning() reports the flag; these calls change
\* neither the bodies nor the configuration, and no other call (update,
\* reset, setNumBodies, setSpeedMultiplier, setAdaptiveTimeStep, a
\* configuration write) changes the flag.
C14_RunningFlag ==
  [][/\ lastOp = "constructor" => ~isRunning(system)
     /\ isRunning(system) \in BOOLEAN
     /\ lastOp' = "start" => isRunning(system')
     /\ lastOp' = "pause" => ~isRunning(system')
     /\ lastOp' = "toggleRunning" => isRunning(system') = ~isRunning(system)
     /\ toggleRunning(toggleRunning(system)) = system
     /\ lastOp' \in FlagOps
          => /\ system'.bodies = system.bodies
             /\ system'.bodiesId = system.bodiesId
             /\ system'.config = system.config
     /\ lastOp' \notin FlagOps
          => isRunning(system') = isRunning(system)]_vars

\* C14 witness: toggleRunning() has paused an engine that took steps.
C14_Witness ==
  /\ lastOp = "toggleRunning"
  /\ ~isRunning(system)
  /\ stepsSinceInit > 0
  /\ Len(system.bodies) >= 2

\* there are fewer than two bodies
FewerThanTwo(sys) == Len(sys.bodies) < 2

\* no two bodies are at a finite distance from each other
NoFiniteDistance(sys) ==
  \A i, j \in 1 .. Len(sys.bodies) :
    i < j => ~IsFinite(Distance(sys.bodies[i], sys.bodies[j]))

\* every body is at rest
AllAtRest(sys) ==
  \A i \in 1 .. Len(sys.bodies) : Magnitude(sys.bodies[i].velocity) = 0

\* C15: with useAdaptiveTimeStep = true, a running step of an engine that
\* holds fewer than two bodies, or no pair of bodies at a finite distance,
\* or only bodies at rest, has the base time step config.dt as its
\* effective time step.
C15_AdaptiveFallback ==
  [][(/\ lastOp' = "update"
      /\ system.running
      /\ system.config.useAdaptiveTimeStep
      /\ \/ FewerThanTwo(system)
         \/ NoFiniteDistance(system)
         \/ AllAtRest(system))
       => getEffectiveTimeStep(system') = system.config.dt]_vars

\* C15 witness: a running step with adaptive stepping of an engine of one
\* moving body, after config.dt was given another value.
C15_Witness ==
  /\ RunningUpdate
  /\ system.config.useAdaptiveTimeStep
  /\ FewerThanTwo(system)
  /\ ~AllAtRest(system)
  /\ system.config.dt = Percent(20)
  /\ getEffectiveTimeStep(system) = system.config.dt

\* C16: setAdaptiveTimeStep(enabled) sets config.useAdaptiveTimeStep and
\* nothing else (not the bodies, not the stored effective time step), no
\* other call changes the flag, and a running step takes the base time
\* step config.dt if the flag is false and the adaptive, clamped time step
\* if it is true: the first running step after the call is the first to
\* use the new setting.
C16_SetAdaptiveTimeStep ==
  [][/\ lastOp' = "setAdaptiveTimeStep"
          => system' = [system EXCEPT
                          !.config.useAdaptiveTimeStep = (lastArg' = 1)]
     /\ lastOp' # "setAdaptiveTimeStep"
          => system'.config.useAdaptiveTimeStep
               = system.config.useAdaptiveTimeStep
     /\ (lastOp' = "update" /\ system.running)
          => LET step == IF system.config.useAdaptiveTimeStep
                         THEN adaptiveBranch(system)
                         ELSE system.config.dt
             IN  /\ getEffectiveTimeStep(system') = step
                 /\ system'.bodies =
                      [i \in 1 .. Len(system.bodies) |->
                         advance(system.bodies[i], Forces(system)[i], step,
                                 system.config.maxTrailLength)]]_vars

\* C16 witness: setAdaptiveTimeStep(false) was called on a running engine
\* of several bodies whose last step was adaptive; the stored effective time
\* step is still the adaptive one.
C16_Witness ==
  /\ lastOp = "setAdaptiveTimeStep"
  /\ lastArg = 0
  /\ ~system.config.useAdaptiveTimeStep
  /\ system.running
  /\ stepsSinceInit = 1
  /\ Len(system.bodies) >= 2
  /\ getEffectiveTimeStep(system) # system.config.dt

\* the distance of a body from the center of the canvas
CenterDistance(cfg, body) ==
  Magnitude(<<FSub(body.position[1], FDiv(cfg.canvasWidth, 2 * Scale)),
              FSub(body.position[2], FDiv(cfg.canvasHeight, 2 * Scale))>>)

\* What the number model can lose of a distance of at most 0.3 * canvasWidth
\* laid off along (Cos, Sin): less than 1/Scale of it in each coordinate,
\* and one unit in each truncation.
RadialResolution(cfg) ==
  2 * (FMul(cfg.canvasWidth, Percent(30)) \div Scale + 1) + 1

\* C17: after the constructor and after reset() there are exactly
\* config.numBodies bodies, each with a mass > 0, an empty trail and a
\* position at a distance from the center of the canvas within
\* [0.15, 0.3] * canvasWidth, up to the resolution of the number model.
C17_Initialization ==
  lastOp \in {"constructor", "reset"} =>
    /\ Len(system.bodies) = system.config.numBodies
    /\ \A i \in 1 .. Len(system.bodies) :
         LET body == system.bodies[i]
             distance == CenterDistance(system.config, body)
         IN  /\ FGt(body.mass, 0)
             /\ body.trail = <<>>
             /\ IsFinite(distance)
             /\ distance >= FMul(system.config.canvasWidth, Percent(15))
                              - RadialResolution(system.config)
             /\ distance <= FMul(system.config.canvasWidth, Percent(30))

\* C17 witness: reset() has replaced the three bodies of a running engine
\* that keeps trails.
C17_Witness ==
  /\ lastOp = "reset"
  /\ system.running
  /\ system.config.maxTrailLength > 0
  /\ Len(system.bodies) = 3
  /\ system.bodiesId = 2

\* C18: in an engine constructed with the default configuration of the
\* canvas, every mass drawn by the constructor or by reset() is a finite
\* positive number: whatever draws have led to the bodies, every drawn
\* exponent is at most MaxExponent.
C18_DefaultMassesFinite ==
  lastOp \in {"constructor", "reset"} =>
    \A seed \in Seeds :
      system.bodies = initializeRandomBodies(system.config, seed) =>
        \A i \in 1 .. Len(system.bodies) :
          massExponent(system.config, seed, i - 1) <= MaxExponent

\* the radius and the color of every body
Shapes(sys) ==
  [i \in 1 .. Len(sys.bodies) |->
     <<sys.bodies[i].radius, sys.bodies[i].color>>]

\* C19: update() changes neither the number of bodies nor a radius nor a
\* color nor the configuration, and keeps the body array; the number of
\* bodies changes only in a reset() or setNumBodies() call, which replaces
\* the body array by a fresh initialization.
C19_WholesaleMembership ==
  [][/\ lastOp' = "update"
          => /\ Len(system'.bodies) = Len(system.bodies)
             /\ Shapes(system') = Shapes(system)
             /\ system'.config = system.config
             /\ system'.bodiesId = system.bodiesId
     /\ Len(system'.bodies) # Len(system.bodies)
          => /\ lastOp' \in {"reset", "setNumBodies"}
             /\ system'.bodiesId # system.bodiesId
             /\ \E seed \in Seeds :
                  system'.bodies =
                    initializeRandomBodies(system'.config, seed)]_vars

\* C19 witness: a running step on two bodies, a number of bodies that only
\* an accepted setNumBodies(2) leads to.
C19_Witness ==
  /\ RunningUpdate
  /\ stepsSinceInit >= 1
  /\ system.bodiesId = 2
  /\ Len(system.bodies) = 2
  /\ system.config.numBodies = 2

\* the engine is in the two-body scenario: TwoBodies, at rest 100 apart,
\* with G and dt of TwoBodyConfig and without adaptive stepping
InTwoBodyScenario(sys) ==
  /\ sys.bodies = TwoBodies
  /\ sys.config.G = TwoBodyConfig.G
  /\ sys.config.dt = TwoBodyConfig.dt
  /\ ~sys.config.useAdaptiveTimeStep

\* C20: one running step in the two-body scenario gives the first body the
\* velocity (G * m1 * m2 / 100^2) / m * dt towards the second and the second
\* the opposite velocity, and moves each position by that velocity times dt
\* towards the other body.
C20_TwoBodyStep ==
  [][(/\ lastOp' = "update"
      /\ system.running
      /\ InTwoBodyScenario(system))
       => LET G == system.config.G
              dt == system.config.dt
              m == TwoBodies[1].mass
              d == 100 * Scale
              force == FDiv(FMul(FMul(G, m), m), FMul(d, d))
              speed == FMul(FDiv(force, m), dt)
              shift == FMul(speed, dt)
          IN  /\ speed > 0
              /\ shift > 0
              /\ system'.bodies[1].velocity = <<speed, 0>>
              /\ system'.bodies[2].velocity = <<0 - speed, 0>>
              /\ system'.bodies[1].position = <<shift, 0>>
              /\ system'.bodies[2].position = <<d - shift, 0>>]_vars

\* C20 witness: the state after the first running step of the two-body
\* scenario: velocities 1 and -1, positions 0.02 and 100 - 0.02.
C20_Witness ==
  /\ RunningUpdate
  /\ stepsSinceInit = 1
  /\ system.config.G = TwoBodyConfig.G
  /\ system.config.dt = Percent(2)
  /\ ~system.config.useAdaptiveTimeStep
  /\ Len(system.bodies) = 2
  /\ system.bodies[1].velocity = <<Scale, 0>>
  /\ system.bodies[2].velocity = <<0 - Scale, 0>>
  /\ system.bodies[1].position = <<Percent(2), 0>>
  /\ system.bodies[2].position = <<100 * Scale - Percent(2), 0>>

\* the sum of mass * velocity over bodies 1..i
RECURSIVE MomentumUpTo(_, _)
MomentumUpTo(bs, i) ==
  IF i = 0 THEN <<0, 0>>
  ELSE LET prev == MomentumUpTo(bs, i - 1)
       IN  <<FAdd(prev[1], FMul(bs[i].mass, bs[i].velocity[1])),
             FAdd(prev[2], FMul(bs[i].mass, bs[i].velocity[2]))>>

Momentum(sys) == MomentumUpTo(sys.bodies, Len(sys.bodies))

\* What the number model can lose of the momentum in a step of bodies 1..i
\* with the time step timeStep: per body, one unit in force / mass and one
\* in its product with the time step, each times the mass, and one unit in
\* each of the two products mass * velocity.
RECURSIVE MomentumResolution(_, _, _)
MomentumResolution(bs, i, timeStep) ==
  IF i = 0 THEN 0
  ELSE MomentumResolution(bs, i - 1, timeStep)
         + (bs[i].mass \div Scale + 1) * (timeStep \div Scale + 2) + 2

\* C21: in a running step the force on body i from body j is the negation
\* of the force on body j from body i, and the sum of mass * velocity over
\* all bodies is the same before and after the step, up to the resolution
\* of the number model.
C21_MomentumConserved ==
  [][(lastOp' = "update" /\ system.running)
       => /\ \A i, j \in 1 .. Len(system.bodies) :
               i # j =>
                 LET fij == calculateForce(system.config, system.bodies[i],
                                           system.bodies[j])
                     fji == calculateForce(system.config, system.bodies[j],
                                           system.bodies[i])
                 IN  /\ IsFinite(fij[1]) /\ IsFinite(fij[2])
                     /\ fij = <<0 - fji[1], 0 - fji[2]>>
          /\ LET before == Momentum(system)
                 after == Momentum(system')
                 tolerance ==
                   MomentumResolution(system.bodies, Len(system.bodies),
                                      getEffectiveTimeStep(system'))
             IN  /\ IsFinite(after[1]) /\ IsFinite(after[2])
                 /\ Abs(after[1] - before[1]) <= tolerance
                 /\ Abs(after[2] - before[2]) <= tolerance]_vars

\* C21 witness: a running step of five bodies with an adaptive time step
\* that changed the velocity of each and left a sum of mass * velocity
\* other than zero.
C21_Witness ==
  /\ RunningUpdate
  /\ stepsSinceInit = 1
  /\ Len(system.bodies) = 5
  /\ system.config.useAdaptiveTimeStep
  /\ getEffectiveTimeStep(system) # system.config.dt
  /\ Momentum(system) # <<0, 0>>
  /\ \E seed \in Seeds :
       \A i \in 1 .. 5 :
         /\ initializeRandomBodies(system.config, seed)[i].mass
              = system.bodies[i].mass
         /\ initializeRandomBodies(system.config, seed)[i].velocity
              # system.bodies[i].velocity

\* C22: a running step gives every body i the velocity
\* v + (sum over j # i of the force on i from j) / m * step and the position
\* p + that velocity * step, where every force is computed from the
\* positions of both bodies before the step, and the step is the time step
\* computed from the bodies before the step.
C22_ForcesFromPreStepState ==
  [][(lastOp' = "update" /\ system.running)
       => LET step == calculateAdaptiveTimeStep(system)
          IN  /\ getEffectiveTimeStep(system') = step
              /\ Len(system'.bodies) = Len(system.bodies)
              /\ \A i \in 1 .. Len(system.bodies) :
                   LET old == system.bodies[i]
                       new == system'.bodies[i]
                       force == Forces(system)[i]
                   IN  /\ new.velocity =
                            <<FAdd(old.velocity[1],
                                   FMul(FDiv(force[1], old.mass), step)),
                              FAdd(old.velocity[2],
                                   FMul(FDiv(force[2], old.mass), step))>>
                       /\ new.position =
                            <<FAdd(old.position[1],
                                   FMul(new.velocity[1], step)),
                              FAdd(old.position[2],
                                   FMul(new.velocity[2], step))>>]_vars

\* C22 witness: the first running step of at least three bodies, where
\* moving the first body before computing the forces on the others would
\* have led to other bodies and computing the time step after the step to
\* another time step.
C22_Witness ==
  /\ RunningUpdate
  /\ stepsSinceInit = 1
  /\ Len(system.bodies) >= 3
  /\ system.config.useAdaptiveTimeStep
  /\ calculateAdaptiveTimeStep(system) # getEffectiveTimeStep(system)
  /\ \E seed \in Seeds :
       LET pre == [system EXCEPT
                     !.bodies = initializeRandomBodies(system.config, seed),
                     !.effectiveTimeStep = system.config.dt]
       IN  /\ runUpdate(pre) = system
           /\ runUpdate_GaussSeidel(pre).bodies # system.bodies

\* the smallest distance between two bodies
MinPairDistance(sys) ==
  LET pairs == {<<i, j>> \in (1 .. Len(sys.bodies)) \X (1 .. Len(sys.bodies)) :
                  i < j}
      ds == {Distance(sys.bodies[p[1]], sys.bodies[p[2]]) : p \in pairs}
  IN  CHOOSE d \in ds : \A e \in ds : d <= e

\* the largest velocity magnitude of a body
MaxSpeed(sys) ==
  LET ms == {Magnitude(sys.bodies[i].velocity) : i \in 1 .. Len(sys.bodies)}
  IN  CHOOSE m \in ms : \A e \in ms : m >= e

\* x clamped into [lo, hi]
Clamp(x, lo, hi) == IF x < lo THEN lo ELSE IF x > hi THEN hi ELSE x

\* C23: with useAdaptiveTimeStep = true, at least two bodies, finite
\* positions and velocities and a maximum velocity magnitude other than
\* zero, the effective time step of a running step is
\* maxPositionChangeRatio * (minimum pair distance) / (maximum velocity
\* magnitude) clamped into [0.1 * dt, 10 * dt], and so lies in that
\* interval.
C23_AdaptiveStepClamped ==
  [][(/\ lastOp' = "update"
      /\ system.running
      /\ system.config.useAdaptiveTimeStep
      /\ Len(system.bodies) >= 2
      /\ AllFinite(system)
      /\ MaxSpeed(system) # 0)
       => LET dt == system.config.dt
              lo == FMul(dt, Percent(10))
              hi == FMul(dt, 10 * Scale)
              candidate ==
                FDiv(FMul(system.config.maxPositionChangeRatio,
                          MinPairDistance(system)),
                     MaxSpeed(system))
          IN  /\ getEffectiveTimeStep(system') = Clamp(candidate, lo, hi)
              /\ getEffectiveTimeStep(system') >= lo
              /\ getEffectiveTimeStep(system') <= hi]_vars

\* C23 witness: a running step of several bodies with an adaptive time step
\* strictly inside the interval and other than dt.
C23_Witness ==
  /\ RunningUpdate
  /\ system.config.useAdaptiveTimeStep
  /\ Len(system.bodies) >= 2
  /\ AllFinite(system)
  /\ getEffectiveTimeStep(system) > FMul(system.config.dt, Percent(10))
  /\ getEffectiveTimeStep(system) < FMul(system.config.dt, 10 * Scale)
  /\ getEffectiveTimeStep(system) # system.config.dt

\* the distance between the positions of body i in two states of the engine
Displacement(old, new, i) == Distance(old.bodies[i], new.bodies[i])

\* C24: with useAdaptiveTimeStep = true, a running step of at least two
\* bodies with finite positions and velocities moves no body by more than
\* maxPositionChangeRatio times the smallest distance between two bodies
\* before the step.
C24_DisplacementBounded ==
  [][(/\ lastOp' = "update"
      /\ system.running
      /\ system.config.useAdaptiveTimeStep
      /\ Len(system.bodies) >= 2
      /\ AllFinite(system))
       => \A i \in 1 .. Len(system.bodies) :
            Displacement(system, system', i)
              <= FMul(system.config.maxPositionChangeRatio,
                      MinPairDistance(system))]_vars

\* C25: a running step appends the new position of each body to its trail
\* and, if the trail is then longer than maxTrailLength, removes the first
\* entry and no other; the entries kept are unchanged and in their order,
\* so that a non-empty trail ends with the current position and lists the
\* most recent positions, oldest first.
C25_TrailFifo ==
  [][(lastOp' = "update" /\ system.running)
       => \A i \in 1 .. Len(system.bodies) :
            LET old == system.bodies[i].trail
                new == system'.bodies[i].trail
                position == system'.bodies[i].position
            IN  /\ Len(old) + 1 <= system.config.maxTrailLength
                     => /\ Len(new) = Len(old) + 1
                        /\ new[Len(new)] = position
                        /\ \A k \in 1 .. Len(old) : new[k] = old[k]
                /\ Len(old) + 1 > system.config.maxTrailLength
                     => /\ Len(new) = Len(old)
                        /\ Len(new) > 0 => new[Len(new)] = position
                        /\ \A k \in 1 .. Len(old) - 1 : new[k] = old[k + 1]]_vars

\* C25 witness: the third running step with maxTrailLength = 2: the trail
\* holds the positions after the second and the third step, which differ.
C25_Witness ==
  /\ RunningUpdate
  /\ stepsSinceInit = 3
  /\ system.config.maxTrailLength = 2
  /\ \A i \in 1 .. Len(system.bodies) :
       /\ Len(system.bodies[i].trail) = 2
       /\ system.bodies[i].trail[2] = system.bodies[i].position
       /\ system.bodies[i].trail[1] # system.bodies[i].trail[2]

\* C26: with useAdaptiveTimeStep false, the engine with adaptive stepping
\* and the engine without it, started from the same bodies and the same G,
\* dt and maxTrailLength and given the same start, pause, toggleRunning and
\* update calls, hold the same positions, velocities and trails after every
\* call.
C26_StepEquivalent ==
  (/\ system.config.useAdaptiveTimeStep = FALSE
   /\ system.config.G = twin.config.G
   /\ system.config.dt = twin.config.dt
   /\ system.config.maxTrailLength = twin.config.maxTrailLength)
    => /\ Len(system.bodies) = Len(twin.bodies)
       /\ \A i \in 1 .. Len(system.bodies) :
            /\ system.bodies[i].position = twin.bodies[i].position
            /\ system.bodies[i].velocity = twin.bodies[i].velocity
            /\ system.bodies[i].trail = twin.bodies[i].trail

\* C26 witness: both engines have taken three running steps, the adaptive
\* step off and the speed multiplier at 3, and every body has moved.
C26_Witness ==
  /\ RunningUpdate
  /\ twin.running
  /\ stepsSinceInit = 3
  /\ system.config.useAdaptiveTimeStep = FALSE
  /\ system.config.speedMultiplier = 3 * Scale
  /\ system.config.maxTrailLength = 2
  /\ \A i \in 1 .. Len(twin.bodies) :
       /\ Len(twin.bodies[i].trail) = 2
       /\ twin.bodies[i].trail[1] # twin.bodies[i].trail[2]
       /\ twin.bodies[i].trail[2] = system.bodies[i].position

\* the reset that the user asked for has been carried through
Quiescent == ui.mounted /\ ~ui.renderPending

\* the user actions that ask for a reset: the Reset button, and a move of
\* the body-count slider to a new value
ResetTriggers == {"handleReset", "handleNumBodiesChange"}

\* C27: a press of Reset or a move of the body-count slider to a new value
\* in 2..5 re-initializes the engine exactly once: never more than once, and
\* once by the time the effects have run; onReset is called once; a run of
\* the config effect that follows onReset re-initializes nothing, calls
\* onReset no more and leaves no effect to run; at most two runs of the
\* effect follow the user action, the last of which leaves none to run.
C27_ResetQuiesces ==
  /\ [](ui.trigger \in ResetTriggers
          => /\ ui.reinits <= 1
             /\ ui.onResets <= 1
             /\ ui.effectRuns <= 2
             /\ Quiescent => ui.reinits = 1 /\ ui.onResets = 1)
  /\ [][(lastOp' = "configEffect" /\ ui.onResets > 0)
          => /\ system'.bodiesId = system.bodiesId
             /\ system'.bodies = system.bodies
             /\ ui'.onResets = ui.onResets
             /\ ~ui'.renderPending]_vars
  /\ [][(lastOp' = "configEffect" /\ ui.effectRuns = 1)
          => ~ui'.renderPending]_vars

\* C27 witness: the slider has been moved to a new value and the effects
\* have run: the first run re-initialized the engine with the new number of
\* bodies and called onReset, the second did neither.
C27_Witness ==
  /\ ui.trigger = "handleNumBodiesChange"
  /\ lastOp = "configEffect"
  /\ Quiescent
  /\ ui.effectRuns = 2
  /\ ui.reinits = 1
  /\ ui.onResets = 1
  /\ Len(system.bodies) = ui.config.numBodies
  /\ system.config.numBodies = ui.config.numBodies
  /\ ui.config.numBodies # ContainerConfig.numBodies

\* C28: a canvas has at most one frame callback requested at any time, the
\* one whose id animationFrameRef holds, and none once it is unmounted; a
\* display frame therefore calls renderFrame at most once, which calls
\* update() at most once and requests at most one successor.
C28_SingleFrameLoop ==
  /\ Cardinality(ui.scheduled) <= 1
  /\ ui.scheduled \subseteq {ui.animationFrameRef}
  /\ ~ui.mounted => ui.scheduled = {}
  /\ ui.updates <= 1

\* C28 witness: a canvas was unmounted and a new one mounted; the browser
\* has presented two frames, the latest of which called update() once and
\* requested its successor.
C28_Witness ==
  /\ ui.trigger = "remount"
  /\ ui.mounted
  /\ lastOp = "renderFrame"
  /\ ui.frames = 2
  /\ ui.updates = 1
  /\ Cardinality(ui.scheduled) = 1
  /\ system.running
  /\ \A i \in 1 .. Len(system.bodies) : Len(system.bodies[i].trail) > 0

\* the fields of the configuration that the container has a control for
ControlFields ==
  {"G", "dt", "maxTrailLength", "numBodies", "useAdaptiveTimeStep",
   "maxPositionChangeRatio", "speedMultiplier"}

\* C29: once the effects of a change of a control of the container have
\* run, the configuration of the engine holds the value that the container
\* shows, for every control: G, dt, maxTrailLength, numBodies,
\* useAdaptiveTimeStep, maxPositionChangeRatio and speedMultiplier.
C29_ControlsReflected ==
  Quiescent => \A f \in ControlFields : system.config[f] = ui.config[f]

\* the zoom is a number between the limits 0.1 and 5 of handleWheel
ZoomInRange(zoom) ==
  /\ ~IsNaN(zoom)
  /\ zoom >= Percent(10)
  /\ zoom <= 5 * Scale

\* C30: a mouse-down, a move of the mouse while dragging and a wheel event
\* leave autoFollow false; autoFollow turns from false to true only by the
\* Auto-Follow button, the Reset button or a change of the number of bodies
\* in the config effect; a frame presented while autoFollow is false leaves
\* the camera as it was; and a wheel event leaves the zoom within [0.1, 5].
C30_CameraAutoFollow ==
  [][/\ lastOp' \in {"handleMouseDown", "handleWheel"}
          => ~ui'.camera.autoFollow
     /\ (lastOp' = "handleMouseMove" /\ ui.drag.isDragging)
          => ~ui'.camera.autoFollow
     /\ (~ui.camera.autoFollow /\ ui'.camera.autoFollow)
          => \/ lastOp' \in {"toggleAutoFollow", "handleReset"}
             \/ /\ lastOp' = "configEffect"
                /\ Len(system'.bodies) # Len(system.bodies)
     /\ (lastOp' = "renderFrame" /\ ~ui.camera.autoFollow)
          => ui'.camera = ui.camera
     /\ lastOp' = "handleWheel" => ZoomInRange(ui'.camera.zoom)]_vars

=============================================================================
